---- MODULE Spec2Model ----
(***************************************************************************)
(* Velocidoc PDFGen: the POST /v1/generate pipeline, alone and with two    *)
(* requests in flight, the POST /v1/templates/validate operation, the      *)
(* template validator, the image normalizer and the API-key hook           *)
(* (packages/api/src/routes/generate.ts, services/docx.ts,                 *)
(* services/gotenberg.ts, services/template-validator.ts,                  *)
(* middleware/auth.ts).                                                    *)
(*                                                                         *)
(* Strings are sequences of atoms (short pieces of text); String.includes  *)
(* is the contiguous-subsequence test on atoms.  An optional value is a    *)
(* sequence of length 0 (absent) or 1 (present).  Template text, field     *)
(* names and data keys are strings of characters.                          *)
(***************************************************************************)
EXTENDS Integers, Sequences, FiniteSets, TLC

VARIABLES req, pc, mode, templateName, templateBuffer, renderedDocx, pdfBuffer,
          timerArmed, fetchResponse, arrayBuffer, calls, log, response,
          givenBuffer, results, givenData, config, inflight

vars == <<req, pc, mode, templateName, templateBuffer, renderedDocx, pdfBuffer,
          timerArmed, fetchResponse, arrayBuffer, calls, log, response,
          givenBuffer, results, givenData, config, inflight>>

\* the argument and the results of direct calls of the validator's functions
validatorVars == <<givenBuffer, results>>

\* the argument of direct calls of processDataForImages; the configuration
\* the authentication hook is registered with; the generation request that
\* waits while another one runs
directVars == <<givenData, config, inflight>>

(***************************************************************************)
(* Strings                                                                 *)
(***************************************************************************)

\* needle occurs in s as a contiguous run of atoms (String.prototype.includes)
Includes(s, needle) ==
    \E i \in 0..(Len(s) - Len(needle)) :
        \A j \in 1..Len(needle) : s[i + j] = needle[j]

\* optional values
Absent == <<>>
Some(v) == <<v>>
IsPresent(o) == Len(o) = 1

\* JavaScript truthiness of an optional string: undefined and "" are falsy
TruthyStr(o) == IsPresent(o) /\ Len(o[1]) > 0

\* JavaScript truthiness of an optional object: any object is truthy
TruthyObj(o) == IsPresent(o)

(***************************************************************************)
(* Buffers.  A buffer is its length, its first bytes and what JSZip makes  *)
(* of it: an error text, or the entries of the archive with their text.    *)
(***************************************************************************)

ContentTypesXml == <<"[Content_Types].xml">>
DocumentXml == <<"word/document.xml">>

ZipErr(text) == [ok |-> FALSE, err |-> text, parts |-> {}, texts |-> <<>>]
\* an archive given by the text of each of its entries
ZipWith(texts) == [ok |-> TRUE, err |-> <<>>, parts |-> DOMAIN texts, texts |-> texts]
ZipOf(parts) == ZipWith([p \in parts |-> ""])

EndOfCentralDir == <<"Can't", "find", "end", "of", "central", "directory">>

MkBuffer(name, len, head, zip) == [name |-> name, len |-> len, head |-> head, zip |-> zip]

\* 50 * 1024 * 1024
MAX_SIZE == 52428800
TIMEOUT_MS == 30000

BufEmpty == MkBuffer("empty", 0, <<>>, ZipErr(EndOfCentralDir))
BufTest == MkBuffer("test", 4, <<116, 101>>, ZipErr(EndOfCentralDir))
BufPkBroken == MkBuffer("pk-broken", 4, <<80, 75>>, ZipErr(EndOfCentralDir))
BufNoContentTypes == MkBuffer("zip-no-ct", 400, <<80, 75>>, ZipOf({DocumentXml}))
BufEmptyZip == MkBuffer("zip-empty", 22, <<80, 75>>, ZipOf({}))
BufDocx == MkBuffer("docx", 900, <<80, 75>>, ZipOf({ContentTypesXml, DocumentXml}))
BufDocxAtCap == MkBuffer("docx-at-cap", MAX_SIZE, <<80, 75>>, ZipOf({ContentTypesXml, DocumentXml}))
BufDocxOverCap == MkBuffer("docx-over-cap", MAX_SIZE + 1, <<80, 75>>, ZipOf({ContentTypesXml, DocumentXml}))

\* buffers around the signature test: too short, one magic byte wrong
BufPkShort == MkBuffer("pk-short", 3, <<80, 75>>, ZipErr(EndOfCentralDir))
BufPOnly == MkBuffer("p-only", 30, <<80, 0>>, ZipErr(EndOfCentralDir))
BufKOnly == MkBuffer("k-only", 30, <<0, 75>>, ZipErr(EndOfCentralDir))
BufNoDocument == MkBuffer("zip-no-doc", 400, <<80, 75>>, ZipOf({ContentTypesXml}))

TemplateBuffers == {BufEmpty, BufTest, BufPkBroken, BufNoContentTypes, BufEmptyZip, BufDocx}
RemoteBodies == TemplateBuffers \cup {BufDocxAtCap, BufDocxOverCap}

\* buffer[i] of a Node Buffer, 0-based; -1 stands for undefined
ByteAt(buffer, i) == IF i < Len(buffer.head) THEN buffer.head[i + 1] ELSE -1

(***************************************************************************)
(* services/template-validator.ts: validateDocx                            *)
(***************************************************************************)

PkSignatureError == <<"File", "is", "not", "a", "valid", "ZIP", "archive", "(missing", "PK", "signature)">>

requiredFiles == <<ContentTypesXml, DocumentXml>>

\* a loop that stops at the first missing file
MissingFileErrors_FirstOnly(zip, i) ==
    IF \A k \in i..Len(requiredFiles) : requiredFiles[k] \in zip.parts THEN <<>>
    ELSE << <<"Missing", "required", "file:">>
            \o requiredFiles[CHOOSE k \in i..Len(requiredFiles) :
                                /\ requiredFiles[k] \notin zip.parts
                                /\ \A m \in i..(k - 1) : requiredFiles[m] \in zip.parts] >>

\* the loop "for (const file of requiredFiles) if (!zip.file(file)) errors.push(...)"
RECURSIVE MissingFileErrors(_, _)
MissingFileErrors(zip, i) ==
    IF i > Len(requiredFiles) THEN <<>>
    ELSE (IF requiredFiles[i] \in zip.parts THEN <<>>
          ELSE << <<"Missing", "required", "file:">> \o requiredFiles[i] >>)
         \o MissingFileErrors(zip, i + 1)

\* a signature test that asks for two bytes only
FailsSignature_TwoBytes(buffer) ==
    buffer.len < 2 \/ ByteAt(buffer, 0) # 80 \/ ByteAt(buffer, 1) # 75

\* the signature test at the top of validateDocx
FailsSignature(buffer) ==
    buffer.len < 4 \/ ByteAt(buffer, 0) # 80 \/ ByteAt(buffer, 1) # 75

validateDocx(buffer) ==
    IF FailsSignature(buffer)
    THEN [valid |-> FALSE, errors |-> <<PkSignatureError>>]
    ELSE IF ~buffer.zip.ok
    THEN [valid |-> FALSE,
          errors |-> << <<"Failed", "to", "parse", "ZIP", "archive:">> \o buffer.zip.err >>]
    ELSE IF Len(MissingFileErrors(buffer.zip, 1)) > 0
    THEN [valid |-> FALSE, errors |-> MissingFileErrors(buffer.zip, 1)]
    ELSE [valid |-> TRUE, errors |-> <<>>]

\* Array.prototype.join(', ') on a list of strings
RECURSIVE Join(_)
Join(list) ==
    IF Len(list) = 0 THEN <<>>
    ELSE IF Len(list) = 1 THEN list[1]
    ELSE list[1] \o <<", ">> \o Join(Tail(list))

(***************************************************************************)
(* services/docx.ts: processDataForImages over tagged JSON values          *)
(***************************************************************************)

Str(s) == [t |-> "str", s |-> s]
Num(n) == [t |-> "num", n |-> n]
Null == [t |-> "null"]
Arr(items) == [t |-> "arr", items |-> items]
\* a plain object is the sequence of its <<key, value>> entries in key order
Obj(entries) == [t |-> "obj", entries |-> entries]

\* JavaScript truthiness of a data value
Truthy(d) ==
    CASE d.t = "str" -> Len(d.s) > 0
      [] d.t = "num" -> d.n # 0
      [] d.t = "null" -> FALSE
      [] d.t = "bool" -> d.b
      [] OTHER -> TRUE

ImageFormats == {"png", "jpg", "jpeg"}

\* /^data:image\/(png|jpg|jpeg);base64,(.*)$/ : "." matches no line break
MatchesDataUri(s) ==
    /\ Len(s) >= 3
    /\ s[1] = "data:image/"
    /\ s[2] \in ImageFormats
    /\ s[3] = ";base64,"
    /\ \A i \in 4..Len(s) : s[i] # "\n"

\* a descriptor whose data is the whole string, prefix included
ImageDescriptor_KeepsPrefix(s) ==
    Obj(<< <<"width", Num(6)>>, <<"height", Num(6)>>,
           <<"data", Str(s)>>,
           <<"extension", Str(<<".", s[2]>>)>> >>)

\* { width: 6, height: 6, data: match[2], extension: `.${match[1]}` }
ImageDescriptor(s) ==
    Obj(<< <<"width", Num(6)>>, <<"height", Num(6)>>,
           <<"data", Str(SubSeq(s, 4, Len(s)))>>,
           <<"extension", Str(<<".", s[2]>>)>> >>)

RECURSIVE processDataForImages(_)

\* a processDataForImages without the Date and Buffer test: such a value
\* reaches the object branch, whose for-in loop finds no key
processDataForImages_NoDateTest(data) ==
    IF ~Truthy(data) THEN data
    ELSE CASE data.t = "str" ->
                IF MatchesDataUri(data.s) THEN ImageDescriptor(data.s) ELSE data
           [] data.t = "arr" ->
                Arr([i \in DOMAIN data.items |-> processDataForImages(data.items[i])])
           [] data.t \in {"date", "buffer", "obj"} ->
                Obj(IF data.t = "obj"
                    THEN [i \in DOMAIN data.entries |->
                            <<data.entries[i][1], processDataForImages(data.entries[i][2])>>]
                    ELSE <<>>)
           [] OTHER -> data

processDataForImages(data) ==
    IF ~Truthy(data) THEN data
    ELSE CASE data.t = "str" ->
                IF MatchesDataUri(data.s) THEN ImageDescriptor(data.s) ELSE data
           [] data.t = "arr" ->
                Arr([i \in DOMAIN data.items |-> processDataForImages(data.items[i])])
           [] data.t \in {"date", "buffer"} -> data
           [] data.t = "obj" ->
                Obj([i \in DOMAIN data.entries |->
                        <<data.entries[i][1], processDataForImages(data.entries[i][2])>>])
           [] OTHER -> data

PngUri == <<"data:image/", "png", ";base64,", "iVBORw0KGgo=">>
\* an image whose payload is itself a data URI
NestedUri == <<"data:image/", "png", ";base64,", "data:image/", "jpg", ";base64,", "/9j/4AAQ">>

DataEmpty == Obj(<<>>)
DataPhoto == Obj(<< <<"name", Str(<<"Test">>)>>, <<"photo", Str(PngUri)>>,
                    <<"stamps", Arr(<<Str(NestedUri)>>)>> >>)

DataTrees == {DataEmpty, DataPhoto}

(***************************************************************************)
(* services/template-validator.ts: extractFieldsFromXml.  Template text is *)
(* a string of characters; the regular expressions are matched character   *)
(* by character.                                                           *)
(***************************************************************************)

Ch(s, i) == SubSeq(s, i, i)
CharsOf(s) == {Ch(s, i) : i \in 1..Len(s)}

LowerLetters == "abcdefghijklmnopqrstuvwxyz"
UpperLetters == "ABCDEFGHIJKLMNOPQRSTUVWXYZ"
Digits == "0123456789"

\* [a-zA-Z_]
IdentStart == CharsOf(LowerLetters) \cup CharsOf(UpperLetters) \cup {"_"}
\* [a-zA-Z0-9_]
IdentChar == IdentStart \cup CharsOf(Digits)
\* [a-zA-Z0-9_.]
RawChar == IdentChar \cup {"."}
\* \s
Whitespace == {" ", "\t", "\n", "\r"}

\* String.prototype.toUpperCase, one character
UpperOf(c) ==
    IF c \in CharsOf(LowerLetters)
    THEN Ch(UpperLetters, CHOOSE i \in 1..Len(LowerLetters) : Ch(LowerLetters, i) = c)
    ELSE c

RECURSIVE toUpperCase(_)
toUpperCase(s) == IF Len(s) = 0 THEN "" ELSE UpperOf(Head(s)) \o toUpperCase(Tail(s))

\* the text at position i starts with lit (case-sensitive)
StartsAt(s, i, lit) == i + Len(lit) - 1 <= Len(s) /\ SubSeq(s, i, i + Len(lit) - 1) = lit

\* the same under the regular expression flag "i"
StartsAtNoCase(s, i, lit) ==
    i + Len(lit) - 1 <= Len(s) /\ toUpperCase(SubSeq(s, i, i + Len(lit) - 1)) = toUpperCase(lit)

\* the least element of a non-empty set of positions
Least(positions) == CHOOSE j \in positions : \A k \in positions : j <= k

\* first position >= i whose character is not in class (Len(s) + 1 if none)
SpanEnd(s, i, class) ==
    IF i > Len(s) THEN i
    ELSE Least({j \in i..(Len(s) + 1) : j = Len(s) + 1 \/ Ch(s, j) \notin class})

\* [a-zA-Z_][a-zA-Z0-9_]* at i: the position after it, 0 if it does not match
IdentEnd(s, i) ==
    IF i <= Len(s) /\ Ch(s, i) \in IdentStart THEN SpanEnd(s, i + 1, IdentChar) ELSE 0

\* (?:\.[a-zA-Z_][a-zA-Z0-9_]*)* from position e on
RECURSIVE DottedTail(_, _)
DottedTail(s, e) ==
    IF e <= Len(s) /\ Ch(s, e) = "." /\ IdentEnd(s, e + 1) # 0
    THEN DottedTail(s, IdentEnd(s, e + 1))
    ELSE e

\* [a-zA-Z_][a-zA-Z0-9_]*(?:\.[a-zA-Z_][a-zA-Z0-9_]*)* at i
DottedEnd(s, i) == IF IdentEnd(s, i) = 0 THEN 0 ELSE DottedTail(s, IdentEnd(s, i))

\* \s+ at i: the position after it, 0 if there is no white space at i
SpacesEnd(s, i) == IF SpanEnd(s, i, Whitespace) > i THEN SpanEnd(s, i, Whitespace) ELSE 0

\* a match: where it ends and what it adds (no field when field = "")
NoMatch == [end |-> 0, field |-> ""]
Match(end, field) == [end |-> end, field |-> field]

\* simpleFieldRegex at i: \{\{(dotted)\}\}
SimpleAt(s, i) ==
    IF StartsAt(s, i, "{{") /\ DottedEnd(s, i + 2) # 0
       /\ StartsAt(s, DottedEnd(s, i + 2), "}}")
    THEN Match(DottedEnd(s, i + 2) + 2, SubSeq(s, i + 2, DottedEnd(s, i + 2) - 1))
    ELSE NoMatch

\* the optional group (?:\s+IN\s+(dotted))? of forLoopRegex at e
ForInAt(s, e) ==
    IF SpacesEnd(s, e) # 0 /\ StartsAtNoCase(s, SpacesEnd(s, e), "IN")
       /\ SpacesEnd(s, SpacesEnd(s, e) + 2) # 0
       /\ DottedEnd(s, SpacesEnd(s, SpacesEnd(s, e) + 2)) # 0
    THEN Match(DottedEnd(s, SpacesEnd(s, SpacesEnd(s, e) + 2)),
               SubSeq(s, SpacesEnd(s, SpacesEnd(s, e) + 2),
                      DottedEnd(s, SpacesEnd(s, SpacesEnd(s, e) + 2)) - 1))
    ELSE NoMatch

\* forLoopRegex at i: \{\{FOR\s+(ident)(?:\s+IN\s+(dotted))?\}\}  (flags gi)
ForAt(s, i) ==
    IF StartsAt(s, i, "{{") /\ StartsAtNoCase(s, i + 2, "FOR")
       /\ SpacesEnd(s, i + 5) # 0 /\ IdentEnd(s, SpacesEnd(s, i + 5)) # 0
    THEN LET v == SpacesEnd(s, i + 5)
             e == IdentEnd(s, v)
             in_ == ForInAt(s, e)
         IN IF in_.end # 0 /\ StartsAt(s, in_.end, "}}")
            THEN Match(in_.end + 2, in_.field)
            ELSE IF StartsAt(s, e, "}}")
            THEN Match(e + 2, SubSeq(s, v, e - 1))
            ELSE NoMatch
    ELSE NoMatch

\* imageRegex at i: \{\{IMAGE\s+(dotted)\}\}  (flags gi)
ImageAt(s, i) ==
    IF StartsAt(s, i, "{{") /\ StartsAtNoCase(s, i + 2, "IMAGE")
       /\ SpacesEnd(s, i + 7) # 0 /\ DottedEnd(s, SpacesEnd(s, i + 7)) # 0
       /\ StartsAt(s, DottedEnd(s, SpacesEnd(s, i + 7)), "}}")
    THEN Match(DottedEnd(s, SpacesEnd(s, i + 7)) + 2,
               SubSeq(s, SpacesEnd(s, i + 7), DottedEnd(s, SpacesEnd(s, i + 7)) - 1))
    ELSE NoMatch

\* ifRegex at i: \{\{IF\s+(dotted)  (flags gi, no closing braces required)
IfAt(s, i) ==
    IF StartsAt(s, i, "{{") /\ StartsAtNoCase(s, i + 2, "IF")
       /\ SpacesEnd(s, i + 4) # 0 /\ DottedEnd(s, SpacesEnd(s, i + 4)) # 0
    THEN Match(DottedEnd(s, SpacesEnd(s, i + 4)),
               SubSeq(s, SpacesEnd(s, i + 4), DottedEnd(s, SpacesEnd(s, i + 4)) - 1))
    ELSE NoMatch

\* rawFieldRegex at i: \{\{\s*([a-zA-Z_][a-zA-Z0-9_.]*)\s*\}\}
RawAt(s, i) ==
    IF StartsAt(s, i, "{{")
    THEN LET b == SpanEnd(s, i + 2, Whitespace)
             e == IF b <= Len(s) /\ Ch(s, b) \in IdentStart THEN SpanEnd(s, b + 1, RawChar) ELSE 0
         IN IF e # 0 /\ StartsAt(s, SpanEnd(s, e, Whitespace), "}}")
            THEN Match(SpanEnd(s, e, Whitespace) + 2, SubSeq(s, b, e - 1))
            ELSE NoMatch
    ELSE NoMatch

PassAt(pass, s, i) ==
    CASE pass = "simple" -> SimpleAt(s, i)
      [] pass = "for" -> ForAt(s, i)
      [] pass = "image" -> ImageAt(s, i)
      [] pass = "if" -> IfAt(s, i)
      [] pass = "raw" -> RawAt(s, i)

\* the loop "while ((match = regex.exec(text)) !== null)": the captured
\* fields of all matches from position i on, in order
RECURSIVE Captures(_, _, _)
Captures(pass, s, i) ==
    LET starts == {j \in i..Len(s) : PassAt(pass, s, j).end # 0}
    IN IF starts = {} THEN <<>>
       ELSE <<PassAt(pass, s, Least(starts)).field>>
            \o Captures(pass, s, PassAt(pass, s, Least(starts)).end)

keywords == <<"END-FOR", "END-IF", "ENDFOR", "ENDIF", "FOR", "IF", "ELSE", "IMAGE", "LINK",
              "HTML", "this", "$idx", "$index">>

\* keywords.includes(str.toUpperCase()) || keywords.includes(str)
isControlKeyword(str) ==
    \E k \in DOMAIN keywords : keywords[k] = toUpperCase(str) \/ keywords[k] = str

\* whether a pass checks isControlKeyword before fields.add
PassSkipsKeywords(pass) == pass \in {"simple", "raw"}

\* Set.prototype.add on a set kept in insertion order
AddField(fields, f) ==
    IF \E k \in DOMAIN fields : fields[k] = f THEN fields ELSE Append(fields, f)

RECURSIVE AddAll(_, _, _)
AddAll(fields, pass, captured) ==
    IF Len(captured) = 0 THEN fields
    ELSE AddAll(IF PassSkipsKeywords(pass) /\ isControlKeyword(Head(captured))
                THEN fields ELSE AddField(fields, Head(captured)),
                pass, Tail(captured))

\* /<[^>]+>/ at j: a "<", at least one character that is not ">", then ">";
\* the position of that ">", 0 if it does not match
TagEnd(xml, j) ==
    IF Ch(xml, j) = "<"
       /\ SpanEnd(xml, j + 1, CharsOf(xml) \ {">"}) > j + 1
       /\ SpanEnd(xml, j + 1, CharsOf(xml) \ {">"}) <= Len(xml)
    THEN SpanEnd(xml, j + 1, CharsOf(xml) \ {">"})
    ELSE 0

\* xml.replace(/<[^>]+>/g, "") from position i on
RECURSIVE StripTags(_, _)
StripTags(xml, i) ==
    LET starts == {j \in i..Len(xml) : TagEnd(xml, j) # 0}
    IN IF starts = {} THEN SubSeq(xml, i, Len(xml))
       ELSE SubSeq(xml, i, Least(starts) - 1) \o StripTags(xml, TagEnd(xml, Least(starts)) + 1)

\* s.replace(/pat/g, rep) for a literal pattern, from position i on
RECURSIVE ReplaceAll(_, _, _, _)
ReplaceAll(s, i, pat, rep) ==
    LET starts == {j \in i..Len(s) : StartsAt(s, j, pat)}
    IN IF starts = {} THEN SubSeq(s, i, Len(s))
       ELSE SubSeq(s, i, Least(starts) - 1) \o rep
            \o ReplaceAll(s, Least(starts) + Len(pat), pat, rep)

\* the entities the text view decodes, in the order of the .replace calls
entities == << <<"&lt;", "<">>, <<"&gt;", ">">>, <<"&amp;", "&">>, <<"&quot;", "\"">>,
               <<"&apos;", "'">> >>

\* the chain of .replace calls from the k-th entity on
RECURSIVE DecodeEntities(_, _)
DecodeEntities(s, k) ==
    IF k > Len(entities) THEN s
    ELSE DecodeEntities(ReplaceAll(s, 1, entities[k][1], entities[k][2]), k + 1)

\* tags removed, then the five entities decoded one after the other
TextContent(xml) == DecodeEntities(StripTags(xml, 1), 1)

\* the five loops of extractFieldsFromXml, in their order
passes == <<"simple", "for", "image", "if", "raw">>

\* the loops from the k-th on: the first four scan the text view, the raw
\* pass scans the markup
RECURSIVE RunPasses(_, _, _, _)
RunPasses(k, text, xml, fields) ==
    IF k > Len(passes) THEN fields
    ELSE RunPasses(k + 1, text, xml,
                   AddAll(fields, passes[k],
                          Captures(passes[k], IF passes[k] = "raw" THEN xml ELSE text, 1)))

\* extractFieldsFromXml(xml, fields)
extractFieldsFromXml(xml, fields) == RunPasses(1, TextContent(xml), xml, fields)

(***************************************************************************)
(* services/template-validator.ts: extractFields                           *)
(***************************************************************************)

xmlFiles == << <<"word/document.xml">>, <<"word/header1.xml">>, <<"word/header2.xml">>,
               <<"word/header3.xml">>, <<"word/footer1.xml">>, <<"word/footer2.xml">>,
               <<"word/footer3.xml">> >>

\* the loop over xmlFiles: a part that zip.file() does not find is skipped
RECURSIVE ReadParts(_, _, _)
ReadParts(zip, i, fields) ==
    IF i > Len(xmlFiles) THEN fields
    ELSE ReadParts(zip, i + 1,
                   IF xmlFiles[i] \in zip.parts
                   THEN extractFieldsFromXml(zip.texts[xmlFiles[i]], fields)
                   ELSE fields)

\* the characters a field can hold, in the order of their UTF-16 code units
CodeUnits == ".0123456789ABCDEFGHIJKLMNOPQRSTUVWXYZ_abcdefghijklmnopqrstuvwxyz"
CodeOf(c) == CHOOSE i \in 1..Len(CodeUnits) : Ch(CodeUnits, i) = c

\* the default comparison of Array.prototype.sort: by code units
RECURSIVE StrLess(_, _)
StrLess(a, b) ==
    IF Len(a) = 0 THEN Len(b) > 0
    ELSE IF Len(b) = 0 THEN FALSE
    ELSE IF Head(a) = Head(b) THEN StrLess(Tail(a), Tail(b))
    ELSE CodeOf(Head(a)) < CodeOf(Head(b))

RECURSIVE InsertSorted(_, _)
InsertSorted(sorted, f) ==
    IF Len(sorted) = 0 THEN <<f>>
    ELSE IF StrLess(f, Head(sorted)) THEN <<f>> \o sorted
    ELSE <<Head(sorted)>> \o InsertSorted(Tail(sorted), f)

\* a return statement that leaves the set in insertion order
SortFields_InsertionOrder(fields) == fields

\* Array.from(fields).sort()
RECURSIVE SortFields(_)
SortFields(fields) ==
    IF Len(fields) = 0 THEN <<>>
    ELSE InsertSorted(SortFields(SubSeq(fields, 1, Len(fields) - 1)), fields[Len(fields)])

\* the try block of extractFields: JSZip.loadAsync rejects, or the sorted fields
ExtractFieldsTry(buf) ==
    IF ~buf.zip.ok
    THEN [threw |-> TRUE, value |-> <<>>]
    ELSE [threw |-> FALSE, value |-> SortFields(ReadParts(buf.zip, 1, <<>>))]

\* an extractFields whose try block has no catch
extractFields_NoCatch(buf) ==
    [threw |-> ExtractFieldsTry(buf).threw, value |-> ExtractFieldsTry(buf).value,
     logged |-> FALSE]

\* extractFields: the catch logs to the console and returns []
extractFields(buf) ==
    IF ExtractFieldsTry(buf).threw
    THEN [threw |-> FALSE, value |-> <<>>, logged |-> TRUE]
    ELSE [threw |-> FALSE, value |-> ExtractFieldsTry(buf).value, logged |-> FALSE]

\* --- template texts ---

\* pieces of document text: plain and dotted references, directives, a
\* reference split by a tag, padded braces
Snippets == { "{{name}}", "{{user.email}}", "{{FOR i IN items}}", "{{ELSE}}",
              "{{IF this}}", "{{na<w:t>me}}", "{{ Total }}" }

\* how many pieces a document text is made of at most
MaxSnippets == 2

RECURSIVE Concat(_)
Concat(pieces) == IF Len(pieces) = 0 THEN "" ELSE Head(pieces) \o Concat(Tail(pieces))

DocTexts == {Concat(q) : q \in UNION {[1..n -> Snippets] : n \in 0..MaxSnippets}}

\* a DOCX whose main body has the given text
TemplateBuffer(text) ==
    MkBuffer("template", 900, <<80, 75>>,
             ZipWith((ContentTypesXml :> "") @@ (DocumentXml :> text)))

\* archives with headers and footers, with and without a main body
BufHeaderFooter ==
    MkBuffer("header-footer", 1500, <<80, 75>>,
             ZipWith((ContentTypesXml :> "") @@ (DocumentXml :> "{{name}}&lt;{{IF html}}")
                     @@ (<<"word/header1.xml">> :> "{{Company}}{{name}}")
                     @@ (<<"word/footer3.xml">> :> "{{ page.no }}{{FOR l IN line.s}}")
                     @@ (<<"word/styles.xml">> :> "{{unused}}")))
BufHeadersOnly ==
    MkBuffer("headers-only", 700, <<80, 75>>,
             ZipWith((<<"word/header2.xml">> :> "{{b}}{{a.c}}{{a}}{{B}}")
                     @@ (<<"word/header3.xml">> :> "{{a_}}{{_a}}{{a1}}")
                     @@ (<<"word/footer1.xml">> :> "{{IMAGE image}}")
                     @@ (<<"word/footer2.xml">> :> "{{if  x}}{{for y in z}}")))

\* document texts with a loop: the two forms of the directive, in both
\* letter cases, and a loop whose body names FOR
LoopTexts == { "{{FOR items}}{{this.price}}{{END-FOR}}",
               "{{for r in rows}}{{$idx}}{{end-for}}",
               "{{FOR items}}{{IF FOR}}{{END-IF}}{{END-FOR}}" }

ValidatorBuffers ==
    {BufEmpty, BufTest, BufPkBroken, BufPkShort, BufPOnly, BufKOnly, BufNoContentTypes,
     BufNoDocument, BufEmptyZip, BufDocx, BufHeaderFooter, BufHeadersOnly}
    \cup {TemplateBuffer(t) : t \in DocTexts \cup LoopTexts}

(***************************************************************************)
(* routes/generate.ts: names, URLs, the request schema                     *)
(***************************************************************************)

\* atoms that spell ".docx" in some letter case
DocxSuffixes == {".docx", ".DOCX", ".Docx"}

\* atoms that contain a "."
DotAtoms == DocxSuffixes \cup {".", ".aspx", ".pdf"}

\* name.replace(/\.docx$/i, '')
StripDocx(name) ==
    IF Len(name) > 0 /\ name[Len(name)] \in DocxSuffixes
    THEN SubSeq(name, 1, Len(name) - 1)
    ELSE name

\* name.replace(/\//g, "_")
SlashToUnderscore(name) == [i \in DOMAIN name |-> IF name[i] = "/" THEN "_" ELSE name[i]]

\* templateName.replace(/\.docx$/i, '').replace(/\//g, "_")
OutputFilename(name) == SlashToUnderscore(StripDocx(name))

\* decodeURIComponent: "%20" and "%2F" are escapes, a lone "%" is malformed
DecodeAtom(a) == IF a = "%20" THEN " " ELSE IF a = "%2F" THEN "/" ELSE a
DecodeThrows(s) == \E i \in DOMAIN s : s[i] = "%"
decodeURIComponent(s) == [i \in DOMAIN s |-> DecodeAtom(s[i])]

\* A URL string is what "new URL" makes of it: whether it parses, the
\* non-empty segments of its pathname, and the once-decoded "file" and
\* "filename" query parameters.
MkUrl(href, ok, segs, file, filename) ==
    [href |-> href, ok |-> ok, segs |-> segs, file |-> file, filename |-> filename]

TemplateDocx == <<"template", ".docx">>
InvoiceDocx == <<"invoice", ".docx">>

UrlDirect == MkUrl("https://example.com/template.docx", TRUE, <<TemplateDocx>>, Absent, Absent)
UrlOneDrive == MkUrl("https://host/download.aspx?file=invoice.docx", TRUE,
                     << <<"download", ".aspx">> >>, Some(InvoiceDocx), Absent)
UrlQueryOnly == MkUrl("https://host/dl?filename=invoice.docx", TRUE,
                      << <<"dl">> >>, Absent, Some(InvoiceDocx))
UrlEscaped == MkUrl("https://host/a/my%20doc.DOCX", TRUE,
                    << <<"a">>, <<"my", "%20", "doc", ".DOCX">> >>, Absent, Absent)
UrlBare == MkUrl("https://host/", TRUE, <<>>, Absent, Absent)
UrlInvalid == MkUrl("not-a-valid-url", FALSE, <<>>, Absent, Absent)

\* a file parameter that names "my%20doc.docx": written "my%2520doc.docx" in
\* the query, "my%20doc.docx" once searchParams has decoded it
UrlEscapedParam == MkUrl("https://host/dl?file=my%2520doc.docx", TRUE,
                         << <<"dl">> >>, Some(<<"my", "%20", "doc", ".docx">>), Absent)
\* a file parameter that names "100%.docx": "100%25.docx" in the query
UrlPercentParam == MkUrl("https://host/dl?file=100%25.docx&filename=invoice.docx", TRUE,
                         << <<"dl">> >>, Some(<<"100", "%", ".docx">>), Some(InvoiceDocx))

Urls == {UrlDirect, UrlOneDrive, UrlQueryOnly, UrlEscaped, UrlBare, UrlInvalid,
         UrlEscapedParam, UrlPercentParam}

HasDot(s) == \E i \in DOMAIN s : s[i] \in DotAtoms

\* searchParams.get('file') || searchParams.get('filename')
FileParam(url) == IF TruthyStr(url.file) THEN url.file ELSE url.filename

extractFilenameFromUrl(url) ==
    IF ~url.ok THEN TemplateDocx
    ELSE IF Len(url.segs) > 0 /\ HasDot(url.segs[Len(url.segs)])
    THEN (IF DecodeThrows(url.segs[Len(url.segs)]) THEN TemplateDocx
          ELSE decodeURIComponent(url.segs[Len(url.segs)]))
    ELSE IF TruthyStr(FileParam(url))
    THEN (IF DecodeThrows(FileParam(url)[1]) THEN TemplateDocx
          ELSE decodeURIComponent(FileParam(url)[1]))
    ELSE TemplateDocx

\* --- request bodies ---

MkTemplate(content, filename) == [content |-> content, filename |-> filename]

\* base64 texts and the bytes Buffer.from(content, 'base64') makes of them
B64Test == <<"dGVzdA==">>
B64Docx == <<"UEsDBBQA", "docx">>
B64NoContentTypes == <<"UEsDBBQA", "no-content-types">>
B64PkBroken == <<"UEsDBA==">>

\* the base64 text of the DOCX whose main body has the given text
B64Template(text) == <<"UEsDBBQA", "template", text>>

BufferFromBase64(content) ==
    IF Len(content) = 3 /\ content[2] = "template" THEN TemplateBuffer(content[3])
    ELSE IF content = B64Test THEN BufTest
    ELSE IF content = B64Docx THEN BufDocx
    ELSE IF content = B64NoContentTypes THEN BufNoContentTypes
    ELSE IF content = B64PkBroken THEN BufPkBroken
    ELSE BufEmpty

TemplateIds == { <<>>, InvoiceDocx, <<"nonexistent", ".docx">>,
                 <<"Gotenberg", "/", "Invalid", ".DOCX">>, <<"sub", "/", "report", ".DOCX">> }

InlineTemplates == { MkTemplate(B64Test, <<"test", ".docx">>),
                     MkTemplate(B64Docx, <<"a", "/", "b", ".Docx">>),
                     MkTemplate(B64NoContentTypes, <<"report">>),
                     MkTemplate(B64PkBroken, <<"x", ".docx">>),
                     MkTemplate(B64Docx, <<>>),
                     MkTemplate(<<>>, <<"test", ".docx">>) }

OutputFormats == {"pdf", "docx", "html"}

Requests ==
    [ template_id : {Absent} \cup {Some(i) : i \in TemplateIds},
      template : {Absent} \cup {Some(t) : t \in InlineTemplates},
      template_url : {Absent} \cup {Some(u) : u \in Urls},
      output_format : OutputFormats \cup {"invalid"},
      data : DataTrees ]

\* InlineTemplateSchema: content and filename are strings of length >= 1
InlineTemplateOk(t) == Len(t.content) >= 1 /\ Len(t.filename) >= 1

\* the z.object part of UniversalPayloadSchema
ObjectSchemaOk(body) ==
    /\ IsPresent(body.template) => InlineTemplateOk(body.template[1])
    /\ IsPresent(body.template_url) => body.template_url[1].ok
    /\ body.output_format \in OutputFormats

\* truthiness of template_url: a non-empty string (its href)
TruthyUrl(o) == IsPresent(o) /\ o[1].href # ""

\* [template_id, template, template_url].filter(Boolean).length
SourceCount(body) ==
    (IF TruthyStr(body.template_id) THEN 1 ELSE 0)
    + (IF TruthyObj(body.template) THEN 1 ELSE 0)
    + (IF TruthyUrl(body.template_url) THEN 1 ELSE 0)

\* first .refine: data.template_id || data.template || data.template_url
RefineAtLeastOne(body) ==
    TruthyStr(body.template_id) \/ TruthyObj(body.template) \/ TruthyUrl(body.template_url)

\* a refine that only asks for some source
RefineExactlyOne_AtLeastOne(body) == SourceCount(body) >= 1

\* second .refine: count === 1
RefineExactlyOne(body) == SourceCount(body) = 1

UniversalPayloadSchema(body) ==
    ObjectSchemaOk(body) /\ RefineAtLeastOne(body) /\ RefineExactlyOne(body)

(***************************************************************************)
(* The environment: template files, remote servers, the two delegates      *)
(***************************************************************************)

TemplatesDir == <<"/app/templates">>

\* the files under the templates directory
StoredTemplates == {InvoiceDocx, <<"sub", "/", "report", ".DOCX">>}

\* DocxService.render: absolute paths are kept, others resolved against templatesDir
FullPath(templatePath) ==
    IF Len(templatePath) > 0 /\ (templatePath[1] = "/" \/ \E i \in DOMAIN templatePath : templatePath[i] = ":")
    THEN templatePath
    ELSE TemplatesDir \o <<"/">> \o templatePath

FileExists(fullPath) == \E t \in StoredTemplates : fullPath = TemplatesDir \o <<"/">> \o t

\* thrown values: an Error with a name and a message, or something else
Err(name, message) == [isError |-> TRUE, name |-> name, message |-> message]
NonError(text) == [isError |-> FALSE, name |-> "", message |-> text]

\* texts that come from outside: HTTP status texts, response bodies of the
\* conversion service, messages of template errors
ExternalTexts == { <<>>, <<"Not", "Found">>, <<"boom">>, <<"no", "such", "file">>,
                   <<"ENOENT">>, <<"Invalid", "token">>, <<"Gotenberg", "busy">>,
                   <<"bad", "base64">>, <<"cannot", "fetch">> }

\* messages of the TypeError a rejected fetch() carries (undici, Bun)
TransportTexts == { <<"fetch", "failed">>, <<"Unable", "to", "connect">> }

\* readFile on a path that does not exist
EnoentError(fullPath) ==
    Err("Error", <<"ENOENT", ":", "no", "such", "file", "or", "directory,", "open">> \o fullPath)

HttpStatuses == {200, 204, 404, 503}
\* Response.ok
IsOk(status) == status >= 200 /\ status <= 299

\* content-length header texts and parseInt of them (-1 stands for NaN)
ContentLengths == { <<"900">>, <<"52428800">>, <<"52428801">>, <<"chunked?">> }
parseInt(text) ==
    IF text = <<"900">> THEN 900
    ELSE IF text = <<"52428800">> THEN 52428800
    ELSE IF text = <<"52428801">> THEN 52428801
    ELSE -1

RenderedA == MkBuffer("rendered-A", 1000, <<80, 75>>, ZipOf({ContentTypesXml, DocumentXml}))
RenderedB == MkBuffer("rendered-B", 1200, <<80, 75>>, ZipOf({ContentTypesXml, DocumentXml}))
RenderedOutputs == {RenderedA, RenderedB}

PdfA == MkBuffer("pdf-A", 2000, <<37, 80>>, ZipErr(EndOfCentralDir))
PdfB == MkBuffer("pdf-B", 2200, <<37, 80>>, ZipErr(EndOfCentralDir))
ConvertedOutputs == {PdfA, PdfB}

(***************************************************************************)
(* Responses, log entries, calls                                           *)
(***************************************************************************)

DocxMime == "application/vnd.openxmlformats-officedocument.wordprocessingml.document"
PdfMime == "application/pdf"

ErrorReply(status, error, details, template_id) ==
    [status |-> status, error |-> error, details |-> details, template_id |-> template_id,
     contentType |-> "application/json", filename |-> <<>>, body |-> Absent]

FileReply(contentType, filename, buffer) ==
    [status |-> 200, error |-> "", details |-> <<>>, template_id |-> Absent,
     contentType |-> contentType, filename |-> filename, body |-> Some(buffer)]

\* Fastify's answer to a body the schema rejects
SchemaErrorReply == ErrorReply(400, "Bad Request", <<"body">>, Absent)

Call(op, args) == [op |-> op, args |-> args]
LogEntry(level, msg) == [level |-> level, msg |-> msg]
\* request.log.error({ error }, msg)
ErrorLog(error, msg) == [level |-> "error", msg |-> msg, error |-> error]

Called(op) == \E i \in DOMAIN calls : calls[i].op = op
CountCalls(op) == Cardinality({i \in DOMAIN calls : calls[i].op = op})

\* a catch block that looks for 'Gotenberg' before 'ENOENT'
Classify_GotenbergFirst(error, payload) ==
    IF error.isError /\ Includes(error.message, <<"Gotenberg">>)
    THEN ErrorReply(502, "PDF conversion service unavailable", error.message, Absent)
    ELSE IF error.isError /\ (Includes(error.message, <<"ENOENT">>)
                              \/ Includes(error.message, <<"no", "such", "file">>))
    THEN ErrorReply(404, "Template not found", <<>>, payload.template_id)
    ELSE IF error.isError /\ (Includes(error.message, <<"base64">>)
                              \/ Includes(error.message, <<"Invalid">>))
    THEN ErrorReply(400, "Invalid template content", error.message, Absent)
    ELSE IF error.isError /\ Includes(error.message, <<"fetch">>)
    THEN ErrorReply(502, "Failed to fetch template from URL", error.message, Absent)
    ELSE ErrorReply(500, "Internal server error during document generation",
                    error.message, Absent)

\* a catch block that tests for a fetch failure before invalid content
Classify_FetchBeforeInvalid(error, payload) ==
    IF error.isError /\ (Includes(error.message, <<"ENOENT">>)
                         \/ Includes(error.message, <<"no", "such", "file">>))
    THEN ErrorReply(404, "Template not found", <<>>, payload.template_id)
    ELSE IF error.isError /\ Includes(error.message, <<"Gotenberg">>)
    THEN ErrorReply(502, "PDF conversion service unavailable", error.message, Absent)
    ELSE IF error.isError /\ Includes(error.message, <<"fetch">>)
    THEN ErrorReply(502, "Failed to fetch template from URL", error.message, Absent)
    ELSE IF error.isError /\ (Includes(error.message, <<"base64">>)
                              \/ Includes(error.message, <<"Invalid">>))
    THEN ErrorReply(400, "Invalid template content", error.message, Absent)
    ELSE ErrorReply(500, "Internal server error during document generation",
                    error.message, Absent)

\* the catch block of the POST /generate handler
Classify(error, payload) ==
    IF error.isError /\ (Includes(error.message, <<"ENOENT">>)
                         \/ Includes(error.message, <<"no", "such", "file">>))
    THEN ErrorReply(404, "Template not found", <<>>, payload.template_id)
    ELSE IF error.isError /\ Includes(error.message, <<"Gotenberg">>)
    THEN ErrorReply(502, "PDF conversion service unavailable", error.message, Absent)
    ELSE IF error.isError /\ (Includes(error.message, <<"base64">>)
                              \/ Includes(error.message, <<"Invalid">>))
    THEN ErrorReply(400, "Invalid template content", error.message, Absent)
    ELSE IF error.isError /\ (Includes(error.message, <<"Failed", "to", "fetch", "template">>)
                              \/ Includes(error.message, <<"fetch">>))
    THEN ErrorReply(502, "Failed to fetch template from URL", error.message, Absent)
    ELSE ErrorReply(500, "Internal server error during document generation",
                    error.message, Absent)

\* the catch block of fetchTemplateFromUrl: what it rethrows
FetchCatch(error) ==
    IF error.isError /\ error.name = "AbortError"
    THEN Err("Error", <<"Failed", "to", "fetch", "template", ":", "Request", "timed", "out",
                        "after", ToString(TIMEOUT_MS), "ms">>)
    ELSE Err("Error", <<"Failed", "to", "fetch", "template", "from", "URL", ":">> \o error.message)

TooLarge(sizeText) ==
    Err("Error", <<"Template", "file", "too", "large", ":">> \o sizeText
                 \o <<"bytes", "(max", ToString(MAX_SIZE), ")">>)

(***************************************************************************)
(* POST /v1/generate: one request from arrival to its response             *)
(***************************************************************************)

Init ==
    /\ req \in Requests
    /\ pc = "received"
    /\ mode = ""
    /\ templateName = <<>>
    /\ templateBuffer = Absent
    /\ renderedDocx = Absent
    /\ pdfBuffer = Absent
    /\ timerArmed = FALSE
    /\ fetchResponse = Absent
    /\ arrayBuffer = Absent
    /\ calls = <<>>
    /\ log = <<>>
    /\ response = Absent
    /\ givenBuffer = Absent
    /\ results = <<>>
    /\ givenData = Absent
    /\ config = Absent
    /\ inflight = Absent

\* const mode = payload.template ? 'BYOT' : payload.template_url ? 'URL' : 'stored'
ModeOf(payload) ==
    IF TruthyObj(payload.template) THEN "BYOT"
    ELSE IF TruthyUrl(payload.template_url) THEN "URL"
    ELSE "stored"

\* payload.template?.filename || (payload.template_url ? extractFilenameFromUrl(..) : payload.template_id!)
TemplateNameOf(payload) ==
    IF IsPresent(payload.template) /\ Len(payload.template[1].filename) > 0
    THEN payload.template[1].filename
    ELSE IF TruthyUrl(payload.template_url)
    THEN extractFilenameFromUrl(payload.template_url[1])
    ELSE IF IsPresent(payload.template_id) THEN payload.template_id[1] ELSE <<>>

\* a gate that lets a single structural error pass
TemplateRejected_OnlyMany(validation) == ~validation.valid /\ Len(validation.errors) > 1

\* "if (!validation.valid)"
TemplateRejected(validation) == ~validation.valid

\* validation.errors?.join(', ') || "Not a valid DOCX file"
InvalidDetails(validation) ==
    IF Len(Join(validation.errors)) > 0 THEN Join(validation.errors)
    ELSE <<"Not", "a", "valid", "DOCX", "file">>

\* a shortcut that also skips conversion for html
ReturnsDocxDirectly_AlsoHtml(output_format) == output_format \in {"docx", "html"}

\* "if (payload.output_format === 'docx')"
ReturnsDocxDirectly(output_format) == output_format = "docx"

\* "contentLength && parseInt(contentLength) > MAX_SIZE"
DeclaredTooLarge(contentLength) ==
    TruthyStr(contentLength) /\ parseInt(contentLength[1]) > MAX_SIZE

\* a received-size test that is off by one
ReceivedTooLarge_OffByOne(byteLength) == byteLength > MAX_SIZE + 1

\* "arrayBuffer.byteLength > MAX_SIZE"
ReceivedTooLarge(byteLength) == byteLength > MAX_SIZE

DocxReply(name, buffer) ==
    FileReply(DocxMime, OutputFilename(name) \o <<".docx">>, buffer)

PdfReply(name, buffer) ==
    FileReply(PdfMime, OutputFilename(name) \o <<".pdf">>, buffer)

\* a catch block that answers and lets a failed rendering go on to conversion
HandlerCatch_KeepsGoing(error, logSoFar) ==
    /\ log' = Append(logSoFar, ErrorLog(error, "Generation failed"))
    /\ response' = Some(Classify(error, req))
    /\ pc' = IF pc = "rendering" THEN "converting" ELSE "done"

\* the handler's catch block: log once, classify, answer
HandlerCatch(error, logSoFar) ==
    /\ log' = Append(logSoFar, ErrorLog(error, "Generation failed"))
    /\ response' = Some(Classify(error, req))
    /\ pc' = "done"

\* the validator rejects the body before the handler runs
SchemaReject ==
    /\ pc = "received"
    /\ ~UniversalPayloadSchema(req)
    /\ response' = Some(SchemaErrorReply)
    /\ pc' = "done"
    /\ UNCHANGED <<fetchResponse, arrayBuffer, req, mode, templateName, templateBuffer, renderedDocx, pdfBuffer,
                   timerArmed, calls, log>>
    /\ UNCHANGED validatorVars
    /\ UNCHANGED directVars

\* the handler up to its first await
HandlerStart ==
    /\ pc = "received"
    /\ UniversalPayloadSchema(req)
    /\ mode' = ModeOf(req)
    /\ templateName' = TemplateNameOf(req)
    /\ IF TruthyObj(req.template)
       THEN /\ templateBuffer' = Some(BufferFromBase64(req.template[1].content))
            /\ calls' = Append(calls, Call("validateDocx", <<BufferFromBase64(req.template[1].content)>>))
            /\ log' = Append(log, LogEntry("info", "Received generation request"))
            /\ timerArmed' = timerArmed
            /\ pc' = "validating"
       ELSE IF TruthyUrl(req.template_url)
       THEN /\ templateBuffer' = templateBuffer
            /\ calls' = Append(calls, Call("fetch", <<req.template_url[1].href>>))
            /\ log' = log \o << LogEntry("info", "Received generation request"),
                                LogEntry("info", "Fetching template from URL") >>
            /\ timerArmed' = TRUE
            /\ pc' = "fetch_headers"
       ELSE /\ templateBuffer' = templateBuffer
            /\ calls' = calls \o << Call("render", <<req.template_id[1], req.data>>),
                                    Call("readFile", <<FullPath(req.template_id[1])>>) >>
            /\ log' = Append(log, LogEntry("info", "Received generation request"))
            /\ timerArmed' = timerArmed
            /\ pc' = "reading"
    /\ UNCHANGED <<fetchResponse, arrayBuffer, req, renderedDocx, pdfBuffer, response>>
    /\ UNCHANGED validatorVars
    /\ UNCHANGED directVars

\* fetch() resolves with the response head
FetchResponse(status, statusText, contentLength) ==
    /\ pc = "fetch_headers"
    /\ timerArmed' = FALSE
    /\ fetchResponse' = Some([status |-> status, statusText |-> statusText,
                              contentLength |-> contentLength])
    /\ IF ~IsOk(status)
       THEN /\ HandlerCatch(FetchCatch(Err("Error",
                    <<"Failed", "to", "fetch", "template", ":", "HTTP", ToString(status)>>
                    \o statusText)), log)
            /\ calls' = calls
       ELSE IF DeclaredTooLarge(contentLength)
       THEN /\ HandlerCatch(FetchCatch(TooLarge(contentLength[1])), log)
            /\ calls' = calls
       ELSE /\ calls' = Append(calls, Call("arrayBuffer", <<>>))
            /\ pc' = "fetch_body"
            /\ UNCHANGED <<log, response>>
    /\ UNCHANGED <<arrayBuffer, req, mode, templateName, templateBuffer, renderedDocx, pdfBuffer>>
    /\ UNCHANGED validatorVars
    /\ UNCHANGED directVars

\* fetch() or arrayBuffer() rejects: the transport failed
FetchTransportError(text) ==
    /\ pc \in {"fetch_headers", "fetch_body"}
    /\ timerArmed' = FALSE
    /\ HandlerCatch(FetchCatch(Err("TypeError", text)), log)
    /\ UNCHANGED <<fetchResponse, arrayBuffer, req, mode, templateName, templateBuffer, renderedDocx, pdfBuffer, calls>>
    /\ UNCHANGED validatorVars
    /\ UNCHANGED directVars

\* the timeout callback: controller.abort() rejects the pending await
TimerFire ==
    /\ timerArmed
    /\ pc \in {"fetch_headers", "fetch_body"}
    /\ timerArmed' = FALSE
    /\ HandlerCatch(FetchCatch(Err("AbortError", <<"This", "operation", "was", "aborted">>)), log)
    /\ UNCHANGED <<fetchResponse, arrayBuffer, req, mode, templateName, templateBuffer, renderedDocx, pdfBuffer, calls>>
    /\ UNCHANGED validatorVars
    /\ UNCHANGED directVars

\* a last chunk after which the fetched bytes go to the engine unchecked
FetchBody_Unchecked(body) ==
    /\ pc = "fetch_body"
    /\ timerArmed' = FALSE
    /\ arrayBuffer' = Some(body)
    /\ IF ReceivedTooLarge(body.len)
       THEN /\ HandlerCatch(FetchCatch(TooLarge(<<ToString(body.len)>>)), log)
            /\ UNCHANGED <<templateBuffer, calls>>
       ELSE /\ templateBuffer' = Some(body)
            /\ log' = Append(log, LogEntry("info", "Template fetched successfully"))
            /\ calls' = calls \o << Call("renderFromBuffer", <<body, req.data>>),
                                    Call("createReport", <<body, processDataForImages(req.data)>>) >>
            /\ pc' = "rendering"
            /\ UNCHANGED response
    /\ UNCHANGED <<fetchResponse, req, mode, templateName, renderedDocx, pdfBuffer>>
    /\ UNCHANGED validatorVars
    /\ UNCHANGED directVars

\* arrayBuffer() resolves with the whole body
FetchBody(body) ==
    /\ pc = "fetch_body"
    /\ timerArmed' = FALSE
    /\ arrayBuffer' = Some(body)
    /\ IF ReceivedTooLarge(body.len)
       THEN /\ HandlerCatch(FetchCatch(TooLarge(<<ToString(body.len)>>)), log)
            /\ UNCHANGED <<templateBuffer, calls>>
       ELSE /\ templateBuffer' = Some(body)
            /\ log' = Append(log, LogEntry("info", "Template fetched successfully"))
            /\ calls' = Append(calls, Call("validateDocx", <<body>>))
            /\ pc' = "validating"
            /\ UNCHANGED response
    /\ UNCHANGED <<fetchResponse, req, mode, templateName, renderedDocx, pdfBuffer>>
    /\ UNCHANGED validatorVars
    /\ UNCHANGED directVars

\* validateDocx resolves (inline and URL modes)
Validate ==
    /\ pc = "validating"
    /\ IF TemplateRejected(validateDocx(templateBuffer[1]))
       THEN /\ response' = Some(ErrorReply(400, "Invalid template file",
                                   InvalidDetails(validateDocx(templateBuffer[1])), Absent))
            /\ pc' = "done"
            /\ UNCHANGED calls
       ELSE /\ calls' = calls \o << Call("renderFromBuffer", <<templateBuffer[1], req.data>>),
                                    Call("createReport", <<templateBuffer[1], processDataForImages(req.data)>>) >>
            /\ pc' = "rendering"
            /\ UNCHANGED response
    /\ UNCHANGED <<fetchResponse, arrayBuffer, req, mode, templateName, templateBuffer, renderedDocx, pdfBuffer, timerArmed, log>>
    /\ UNCHANGED validatorVars
    /\ UNCHANGED directVars

\* a stored-mode step that hands the request's data to the engine as it came
ReadFile_RawData ==
    /\ pc = "reading"
    /\ IF FileExists(FullPath(req.template_id[1]))
       THEN /\ calls' = Append(calls, Call("createReport", <<BufDocx, req.data>>))
            /\ pc' = "rendering"
            /\ UNCHANGED <<log, response>>
       ELSE /\ HandlerCatch(EnoentError(FullPath(req.template_id[1])), log)
            /\ UNCHANGED calls
    /\ UNCHANGED <<fetchResponse, arrayBuffer, req, mode, templateName, templateBuffer, renderedDocx, pdfBuffer, timerArmed>>
    /\ UNCHANGED validatorVars
    /\ UNCHANGED directVars

\* readFile settles (stored mode)
ReadFile ==
    /\ pc = "reading"
    /\ IF FileExists(FullPath(req.template_id[1]))
       THEN /\ calls' = Append(calls, Call("createReport", <<BufDocx, processDataForImages(req.data)>>))
            /\ pc' = "rendering"
            /\ UNCHANGED <<log, response>>
       ELSE /\ HandlerCatch(EnoentError(FullPath(req.template_id[1])), log)
            /\ UNCHANGED calls
    /\ UNCHANGED <<fetchResponse, arrayBuffer, req, mode, templateName, templateBuffer, renderedDocx, pdfBuffer, timerArmed>>
    /\ UNCHANGED validatorVars
    /\ UNCHANGED directVars

\* createReport resolves with the rendered document
RenderDone(out) ==
    /\ pc = "rendering"
    /\ renderedDocx' = Some(out)
    /\ IF ReturnsDocxDirectly(req.output_format)
       THEN /\ response' = Some(DocxReply(templateName, out))
            /\ log' = Append(log, LogEntry("info", "Template rendered successfully"))
            /\ pc' = "done"
            /\ UNCHANGED calls
       ELSE /\ calls' = Append(calls, Call("convert", <<out, templateName \o <<".docx">> >>))
            /\ log' = Append(log, LogEntry("info", "Template rendered successfully"))
            /\ pc' = "converting"
            /\ UNCHANGED response
    /\ UNCHANGED <<fetchResponse, arrayBuffer, req, mode, templateName, templateBuffer, pdfBuffer, timerArmed>>
    /\ UNCHANGED validatorVars
    /\ UNCHANGED directVars

\* createReport rejects
RenderThrow(error) ==
    /\ pc = "rendering"
    /\ HandlerCatch(error, log)
    /\ UNCHANGED <<fetchResponse, arrayBuffer, req, mode, templateName, templateBuffer, renderedDocx, pdfBuffer, timerArmed, calls>>
    /\ UNCHANGED validatorVars
    /\ UNCHANGED directVars

\* the conversion service answers 2xx with the converted document
ConvertDone(out) ==
    /\ pc = "converting"
    /\ pdfBuffer' = Some(out)
    /\ log' = Append(log, LogEntry("info", "PDF conversion completed"))
    /\ response' = Some(PdfReply(templateName, out))
    /\ pc' = "done"
    /\ UNCHANGED <<fetchResponse, arrayBuffer, req, mode, templateName, templateBuffer, renderedDocx, timerArmed, calls>>
    /\ UNCHANGED validatorVars
    /\ UNCHANGED directVars

\* the conversion service answers with a non-success status
ConvertRejected(status, errorText) ==
    /\ pc = "converting"
    /\ ~IsOk(status)
    /\ HandlerCatch(Err("Error", <<"Gotenberg", "conversion", "failed", ":", ToString(status), "-">>
                                 \o errorText), log)
    /\ UNCHANGED <<fetchResponse, arrayBuffer, req, mode, templateName, templateBuffer, renderedDocx, pdfBuffer, timerArmed, calls>>
    /\ UNCHANGED validatorVars
    /\ UNCHANGED directVars

\* the conversion service cannot be reached: fetch() in convert rejects
ConvertUnreachable(text) ==
    /\ pc = "converting"
    /\ HandlerCatch(Err("TypeError", text), log)
    /\ UNCHANGED <<fetchResponse, arrayBuffer, req, mode, templateName, templateBuffer, renderedDocx, pdfBuffer, timerArmed, calls>>
    /\ UNCHANGED validatorVars
    /\ UNCHANGED directVars

RenderErrors == {Err("Error", t) : t \in ExternalTexts} \cup {NonError(<<"Error", ":", "boom">>)}

Next ==
    \/ SchemaReject
    \/ HandlerStart
    \/ \E status \in HttpStatuses, statusText \in ExternalTexts,
          contentLength \in {Absent} \cup {Some(c) : c \in ContentLengths} :
            FetchResponse(status, statusText, contentLength)
    \/ \E text \in TransportTexts : FetchTransportError(text)
    \/ TimerFire
    \/ \E body \in RemoteBodies : FetchBody(body)
    \/ Validate
    \/ ReadFile
    \/ \E out \in RenderedOutputs : RenderDone(out)
    \/ \E error \in RenderErrors : RenderThrow(error)
    \/ \E out \in ConvertedOutputs : ConvertDone(out)
    \/ \E status \in HttpStatuses, errorText \in ExternalTexts : ConvertRejected(status, errorText)
    \/ \E text \in TransportTexts : ConvertUnreachable(text)

Spec == Init /\ [][Next]_vars

(***************************************************************************)
(* POST /v1/templates/validate: one request from arrival to its response   *)
(***************************************************************************)

\* sample data of a validate request; keys are strings of characters
SampleEmpty == Obj(<<>>)
SampleName == Obj(<< <<"name", Str(<<"Ada">>)>> >>)
SampleFull ==
    Obj(<< <<"name", Null>>, <<"Total", Num(3)>>, <<"photo", Str(PngUri)>>,
           <<"user", Obj(<< <<"email", Str(<<"a@b.c">>)>> >>)>>,
           <<"items", Arr(<< Obj(<< <<"price", Num(1)>> >>), Null >>)>>,
           <<"rows", Arr(<<>>)>> >>)
SampleNested == Obj(<< <<"rows", Arr(<< Arr(<< Num(1), Obj(<< <<"name", Num(2)>> >>) >>) >>)>> >>)
SampleNullItem == Obj(<< <<"name", Str(<<"Ada">>)>>, <<"items", Arr(<<Null>>)>> >>)
SampleList == Arr(<< Str(<<"Ada">>) >>)

SampleData == {SampleEmpty, SampleName, SampleFull, SampleNested, SampleNullItem, SampleList}

ValidateContents ==
    {<<>>, B64Test, B64PkBroken, B64NoContentTypes, B64Docx}
    \cup {B64Template(t) : t \in DocTexts}

ValidateRequests ==
    [ content : {Absent} \cup {Some(c) : c \in ValidateContents},
      data : {Absent} \cup {Some(d) : d \in SampleData} ]

\* ValidateTemplateSchema: content a string of length >= 1, data an optional record
ValidateTemplateSchema(body) ==
    /\ IsPresent(body.content) /\ Len(body.content[1]) >= 1
    /\ IsPresent(body.data) => body.data[1].t = "obj"

\* typeof value === 'object'
TypeofObject(value) == value.t \in {"obj", "arr", "null"}

\* the <<key, value>> pairs Object.keys(obj) walks: the entries of an object,
\* the indices of an array
KeyedEntries(obj) ==
    IF obj.t = "obj" THEN obj.entries
    ELSE [i \in DOMAIN obj.items |-> <<ToString(i - 1), obj.items[i]>>]

NoKeys == [threw |-> FALSE, keys |-> <<>>]
KeysThrow == [threw |-> TRUE, keys |-> <<>>]

\* flattenKeys(obj, prefix): the keys, or the TypeError of Object.keys(null)
RECURSIVE flattenKeys(_, _)
RECURSIVE FlattenEntries(_, _, _)
FlattenEntries(entries, i, prefix) ==
    IF i > Len(entries) THEN NoKeys
    ELSE LET key == entries[i][1]
             value == entries[i][2]
             fullKey == IF prefix # "" THEN prefix \o "." \o key ELSE key
             sub == IF Truthy(value) /\ TypeofObject(value) /\ value.t # "arr"
                    THEN flattenKeys(value, fullKey)
                    ELSE IF value.t = "arr" /\ Len(value.items) > 0
                            /\ TypeofObject(value.items[1])
                    THEN flattenKeys(value.items[1], fullKey)
                    ELSE NoKeys
             rest == FlattenEntries(entries, i + 1, prefix)
         IN IF sub.threw \/ rest.threw THEN KeysThrow
            ELSE [threw |-> FALSE, keys |-> <<fullKey>> \o sub.keys \o rest.keys]

flattenKeys(obj, prefix) ==
    IF obj.t = "null" THEN KeysThrow ELSE FlattenEntries(KeyedEntries(obj), 1, prefix)

NullKeysError == Err("TypeError", <<"Cannot", "convert", "undefined", "or", "null", "to", "object">>)

\* String.prototype.includes for one character
IncludesChar(str, c) == \E i \in 1..Len(str) : Ch(str, i) = c

\* Array.prototype.includes
ListIncludes(list, x) == \E i \in DOMAIN list : list[i] = x

\* fields.filter(f => !dataKeys.includes(f) && !f.includes('.'))
MissingInData(fields, dataKeys) ==
    SelectSeq(fields, LAMBDA f : ~ListIncludes(dataKeys, f) /\ ~IncludesChar(f, "."))

\* missingInData.join(', ')
RECURSIVE JoinText(_)
JoinText(list) ==
    IF Len(list) = 0 THEN ""
    ELSE IF Len(list) = 1 THEN list[1]
    ELSE list[1] \o ", " \o JoinText(Tail(list))

\* a cross-check that also reports dotted fields
Warnings_DottedToo(fields, data) ==
    IF TruthyObj(data)
       /\ Len(SelectSeq(fields, LAMBDA f : ~ListIncludes(flattenKeys(data[1], "").keys, f))) > 0
    THEN Some(<< "Template fields not found in sample data: "
                 \o JoinText(SelectSeq(fields,
                                LAMBDA f : ~ListIncludes(flattenKeys(data[1], "").keys, f))) >>)
    ELSE Absent

\* the warnings of the reply: undefined when there is nothing to warn about
Warnings(fields, data) ==
    IF TruthyObj(data) /\ Len(MissingInData(fields, flattenKeys(data[1], "").keys)) > 0
    THEN Some(<< "Template fields not found in sample data: "
                 \o JoinText(MissingInData(fields, flattenKeys(data[1], "").keys)) >>)
    ELSE Absent

ValidateReply(valid, fields, errors, warnings) ==
    [status |-> 200, valid |-> valid, fields |-> fields, errors |-> errors,
     warnings |-> warnings]

\* a catch block that answers with an internal error
ValidateCatchReply_Status500(error) ==
    [status |-> 500, valid |-> FALSE, fields |-> <<>>,
     errors |-> Some(<< IF error.isError THEN error.message
                        ELSE <<"Unknown", "validation", "error">> >>),
     warnings |-> Absent]

\* the reply of the catch block of the validate handler
ValidateCatchReply(error) ==
    ValidateReply(FALSE, <<>>,
                  Some(<< IF error.isError THEN error.message
                          ELSE <<"Unknown", "validation", "error">> >>),
                  Absent)

\* the variables of a generation request, which a validate request leaves alone
generationVars == <<mode, templateName, renderedDocx, pdfBuffer, timerArmed, fetchResponse,
                    arrayBuffer>>

InitValidate ==
    /\ req \in ValidateRequests
    /\ pc = "received"
    /\ mode = ""
    /\ templateName = <<>>
    /\ templateBuffer = Absent
    /\ renderedDocx = Absent
    /\ pdfBuffer = Absent
    /\ timerArmed = FALSE
    /\ fetchResponse = Absent
    /\ arrayBuffer = Absent
    /\ calls = <<>>
    /\ log = <<>>
    /\ response = Absent
    /\ givenBuffer = Absent
    /\ results = <<>>
    /\ givenData = Absent
    /\ config = Absent
    /\ inflight = Absent

\* the validator rejects the body before the handler runs
ValidateSchemaReject ==
    /\ pc = "received"
    /\ ~ValidateTemplateSchema(req)
    /\ response' = Some(SchemaErrorReply)
    /\ pc' = "done"
    /\ UNCHANGED <<req, templateBuffer, calls, log>>
    /\ UNCHANGED generationVars
    /\ UNCHANGED validatorVars
    /\ UNCHANGED directVars

\* the handler up to its first await: decode, call validateDocx
ValidateStart ==
    /\ pc = "received"
    /\ ValidateTemplateSchema(req)
    /\ templateBuffer' = Some(BufferFromBase64(req.content[1]))
    /\ calls' = Append(calls, Call("validateDocx", <<BufferFromBase64(req.content[1])>>))
    /\ pc' = "validating"
    /\ UNCHANGED <<req, log, response>>
    /\ UNCHANGED generationVars
    /\ UNCHANGED validatorVars
    /\ UNCHANGED directVars

\* validateDocx resolves: answer valid = false, or call extractFields
ValidateChecked ==
    /\ pc = "validating"
    /\ IF ~validateDocx(templateBuffer[1]).valid
       THEN /\ response' = Some(ValidateReply(FALSE, <<>>,
                                   Some(validateDocx(templateBuffer[1]).errors), Absent))
            /\ pc' = "done"
            /\ UNCHANGED calls
       ELSE /\ calls' = Append(calls, Call("extractFields", <<templateBuffer[1]>>))
            /\ pc' = "extracting"
            /\ UNCHANGED response
    /\ UNCHANGED <<req, templateBuffer, log>>
    /\ UNCHANGED generationVars
    /\ UNCHANGED validatorVars
    /\ UNCHANGED directVars

\* extractFields resolves: the cross-check against the sample data, the reply
ValidateExtracted ==
    /\ pc = "extracting"
    /\ IF extractFields(templateBuffer[1]).threw
       THEN /\ log' = Append(log, LogEntry("error", "Template validation failed"))
            /\ response' = Some(ValidateCatchReply(Err("Error", templateBuffer[1].zip.err)))
       ELSE IF TruthyObj(req.data) /\ flattenKeys(req.data[1], "").threw
       THEN /\ log' = Append(log, LogEntry("error", "Template validation failed"))
            /\ response' = Some(ValidateCatchReply(NullKeysError))
       ELSE /\ log' = log
            /\ response' = Some(ValidateReply(TRUE, extractFields(templateBuffer[1]).value,
                                   Absent,
                                   Warnings(extractFields(templateBuffer[1]).value, req.data)))
    /\ pc' = "done"
    /\ UNCHANGED <<req, templateBuffer, calls>>
    /\ UNCHANGED generationVars
    /\ UNCHANGED validatorVars
    /\ UNCHANGED directVars

NextValidate ==
    \/ ValidateSchemaReject
    \/ ValidateStart
    \/ ValidateChecked
    \/ ValidateExtracted

SpecValidate == InitValidate /\ [][NextValidate]_vars

(***************************************************************************)
(* validateDocx and extractFields called on a given buffer                 *)
(***************************************************************************)

\* how many calls are made on the buffer
MaxCalls == 2

Result(fn, threw, value) == [fn |-> fn, threw |-> threw, value |-> value]

InitValidator ==
    /\ givenBuffer \in {Some(b) : b \in ValidatorBuffers}
    /\ results = <<>>
    /\ calls = <<>>
    /\ log = <<>>
    /\ req = Absent
    /\ pc = "idle"
    /\ mode = ""
    /\ templateName = <<>>
    /\ templateBuffer = Absent
    /\ renderedDocx = Absent
    /\ pdfBuffer = Absent
    /\ timerArmed = FALSE
    /\ fetchResponse = Absent
    /\ arrayBuffer = Absent
    /\ response = Absent
    /\ givenData = Absent
    /\ config = Absent
    /\ inflight = Absent

\* validateDocx(buffer): JSZip.loadAsync is reached only past the signature test
CallValidateDocx ==
    /\ Len(results) < MaxCalls
    /\ results' = Append(results, Result("validateDocx", FALSE, validateDocx(givenBuffer[1])))
    /\ calls' = IF FailsSignature(givenBuffer[1]) THEN calls
                ELSE Append(calls, Call("loadAsync", <<"validateDocx">>))
    /\ UNCHANGED <<givenBuffer, log, req, pc, templateBuffer, response>>
    /\ UNCHANGED generationVars
    /\ UNCHANGED directVars

\* extractFields(buffer): JSZip.loadAsync first, console.error in the catch
CallExtractFields ==
    /\ Len(results) < MaxCalls
    /\ results' = Append(results, Result("extractFields", extractFields(givenBuffer[1]).threw,
                                         extractFields(givenBuffer[1]).value))
    /\ calls' = Append(calls, Call("loadAsync", <<"extractFields">>))
    /\ log' = IF extractFields(givenBuffer[1]).logged
              THEN Append(log, LogEntry("console.error", "Failed to extract fields:"))
              ELSE log
    /\ UNCHANGED <<givenBuffer, req, pc, templateBuffer, response>>
    /\ UNCHANGED generationVars
    /\ UNCHANGED directVars

NextValidator ==
    \/ CallValidateDocx
    \/ CallExtractFields

SpecValidator == InitValidator /\ [][NextValidator]_vars

(***************************************************************************)
(* services/docx.ts: processDataForImages called on a given data tree      *)
(***************************************************************************)

Bool(b) == [t |-> "bool", b |-> b]
DateValue == [t |-> "date", iso |-> "2024-01-01T00:00:00.000Z"]
BufferValue == [t |-> "buffer", bytes |-> <<137, 80>>]

\* strings: image data URIs of the three formats, with an empty payload,
\* with a payload that is itself a data URI, with a payload broken over two
\* lines, with another format or letter case, with text in front; plain
\* text and the empty string
JpgUri == <<"data:image/", "jpg", ";base64,", "/9j/4AAQ">>
JpegUri == <<"data:image/", "jpeg", ";base64,", "/9j/4AAQ">>
EmptyPayloadUri == <<"data:image/", "png", ";base64,">>
TwoLineUri == <<"data:image/", "png", ";base64,", "iVBORw0K", "\n", "Ggo=">>
ImageStrings ==
    { PngUri, JpgUri, JpegUri, EmptyPayloadUri, NestedUri, TwoLineUri,
      <<"data:image/", "PNG", ";base64,", "iVBORw0KGgo=">>,
      <<"data:image/", "gif", ";base64,", "R0lGODlh">>,
      <<"see ", "data:image/", "png", ";base64,", "iVBORw0KGgo=">>,
      <<"Test">>, <<>> }

DataLeaves ==
    {Str(s) : s \in ImageStrings}
    \cup {Num(0), Num(42), Null, Bool(TRUE), Bool(FALSE), DateValue, BufferValue}

\* leaves, sequences of up to two leaves, objects of one or two keys, and
\* an object holding a sequence of objects
GivenTrees ==
    DataLeaves
    \cup {Arr(<<>>), Obj(<<>>)}
    \cup {Arr(<<a>>) : a \in DataLeaves}
    \cup {Arr(<<a, b>>) : a, b \in DataLeaves}
    \cup {Obj(<< <<"photo", a>> >>) : a \in DataLeaves}
    \cup {Obj(<< <<"logo", a>>, <<"rows", Arr(<< Obj(<< <<"img", b>> >>), b >>)>> >>) :
              a, b \in DataLeaves}

InitImages ==
    /\ givenData \in {Some(d) : d \in GivenTrees}
    /\ results = <<>>
    /\ givenBuffer = Absent
    /\ config = Absent
    /\ calls = <<>>
    /\ log = <<>>
    /\ req = Absent
    /\ pc = "idle"
    /\ mode = ""
    /\ templateName = <<>>
    /\ templateBuffer = Absent
    /\ renderedDocx = Absent
    /\ pdfBuffer = Absent
    /\ timerArmed = FALSE
    /\ fetchResponse = Absent
    /\ arrayBuffer = Absent
    /\ response = Absent
    /\ inflight = Absent

\* processDataForImages(data): the tree handed in is read, never assigned to
CallProcessDataForImages ==
    /\ Len(results) < MaxCalls
    /\ results' = Append(results, Result("processDataForImages", FALSE,
                                         processDataForImages(givenData[1])))
    /\ UNCHANGED <<givenData, givenBuffer, config, inflight, calls, log, req, pc, templateBuffer, response>>
    /\ UNCHANGED generationVars

NextImages == CallProcessDataForImages

SpecImages == InitImages /\ [][NextImages]_vars

(***************************************************************************)
(* middleware/auth.ts: registerAuth and its preHandler hook                *)
(***************************************************************************)

\* String.prototype.toLowerCase, one character
LowerOf(c) ==
    IF c \in CharsOf(UpperLetters)
    THEN Ch(LowerLetters, CHOOSE i \in 1..Len(UpperLetters) : Ch(UpperLetters, i) = c)
    ELSE c

RECURSIVE toLowerCase(_)
toLowerCase(s) == IF Len(s) = 0 THEN "" ELSE LowerOf(Head(s)) \o toLowerCase(Tail(s))

\* apiKey.substring(0, 8)
getTenantFromKey(apiKey) == SubSeq(apiKey, 1, IF Len(apiKey) < 8 THEN Len(apiKey) ELSE 8)

\* what loadAuthConfig returns: AUTH_ENABLED, the trimmed non-empty keys of
\* API_KEYS, API_KEY_HEADER or its default
AuthConfigs ==
    [ enabled : BOOLEAN,
      apiKeys : {{}, {"test-key-123"}, {"test-key-123", "test-key-456"}},
      headerName : {"X-API-Key", "X-Tenant-Key"} ]

\* request headers as Node presents them: lower-case names, string values
HeaderSets ==
    {<<>>}
    \cup {<< <<"x-api-key", v>> >> : v \in {"", "test-key-123", "test-key-456", "invalid-key"}}
    \cup {<< <<"x-tenant-key", "test-key-456">> >>}

HttpRequests ==
    [ method : {"GET", "POST", "OPTIONS"},
      url : {"/health", "/health?probe=1", "/v1/generate", "/api/test"},
      headers : HeaderSets,
      tenantId : {Absent} ]

\* request.headers[name]: undefined when there is no such header
HeaderValue(headers, name) ==
    IF \E i \in DOMAIN headers : headers[i][1] = name
    THEN Some(headers[CHOOSE i \in DOMAIN headers : headers[i][1] = name][2])
    ELSE Absent

Unauthorized(message) == [status |-> 401, error |-> "Unauthorized", message |-> message]

\* a hook that skips every URL beginning with /health
HookOutcome_HealthPrefix(cfg, request) ==
    LET apiKey == HeaderValue(request.headers, toLowerCase(cfg.headerName))
    IN IF StartsAt(request.url, 1, "/health") THEN "skip"
       ELSE IF request.method = "OPTIONS" THEN "skip"
       ELSE IF ~TruthyStr(apiKey) THEN "missing"
       ELSE IF apiKey[1] \notin cfg.apiKeys THEN "invalid"
       ELSE "authenticated"

\* the branch the preHandler hook takes
HookOutcome(cfg, request) ==
    LET apiKey == HeaderValue(request.headers, toLowerCase(cfg.headerName))
    IN IF request.url = "/health" THEN "skip"
       ELSE IF request.method = "OPTIONS" THEN "skip"
       ELSE IF ~TruthyStr(apiKey) THEN "missing"
       ELSE IF apiKey[1] \notin cfg.apiKeys THEN "invalid"
       ELSE "authenticated"

HookRegistered == Called("addHook")

InitAuth ==
    /\ config \in {Some(c) : c \in AuthConfigs}
    /\ req \in HttpRequests
    /\ pc = "starting"
    /\ calls = <<>>
    /\ log = <<>>
    /\ response = Absent
    /\ mode = ""
    /\ templateName = <<>>
    /\ templateBuffer = Absent
    /\ renderedDocx = Absent
    /\ pdfBuffer = Absent
    /\ timerArmed = FALSE
    /\ fetchResponse = Absent
    /\ arrayBuffer = Absent
    /\ givenBuffer = Absent
    /\ results = <<>>
    /\ givenData = Absent
    /\ inflight = Absent

\* registerAuth(server): no hook when authentication is disabled
RegisterAuth ==
    /\ pc = "starting"
    /\ pc' = "listening"
    /\ IF ~config[1].enabled
       THEN /\ log' = Append(log, LogEntry("warn", "API key authentication is DISABLED"))
            /\ UNCHANGED calls
       ELSE /\ log' = (IF config[1].apiKeys = {}
                       THEN Append(log, LogEntry("warn", "No API keys configured. Set API_KEYS environment variable."))
                       ELSE log)
                      \o <<LogEntry("info", "API key authentication enabled")>>
            /\ calls' = calls \o << Call("decorateRequest", <<"tenantId">>),
                                    Call("addHook", <<"preHandler">>) >>
    /\ UNCHANGED <<req, response, templateBuffer, config, givenData, inflight>>
    /\ UNCHANGED generationVars
    /\ UNCHANGED validatorVars

\* a request arrives at a server without the hook
Dispatch ==
    /\ pc = "listening"
    /\ ~HookRegistered
    /\ pc' = "handling"
    /\ UNCHANGED <<req, response, calls, log, templateBuffer, config, givenData, inflight>>
    /\ UNCHANGED generationVars
    /\ UNCHANGED validatorVars

\* the preHandler hook runs on a request
PreHandler ==
    /\ pc = "listening"
    /\ HookRegistered
    /\ CASE HookOutcome(config[1], req) = "skip" ->
                /\ pc' = "handling"
                /\ UNCHANGED <<req, response, log>>
         [] HookOutcome(config[1], req) = "missing" ->
                /\ response' = Some(Unauthorized("Missing " \o config[1].headerName \o " header"))
                /\ pc' = "done"
                /\ UNCHANGED <<req, log>>
         [] HookOutcome(config[1], req) = "invalid" ->
                /\ log' = Append(log, LogEntry("warn", "Invalid API key"))
                /\ response' = Some(Unauthorized("Invalid API key"))
                /\ pc' = "done"
                /\ UNCHANGED req
         [] HookOutcome(config[1], req) = "authenticated" ->
                /\ req' = [req EXCEPT !.tenantId =
                              Some(getTenantFromKey(HeaderValue(req.headers,
                                                               toLowerCase(config[1].headerName))[1]))]
                /\ log' = Append(log, LogEntry("info", "Authenticated request"))
                /\ pc' = "handling"
                /\ UNCHANGED response
    /\ UNCHANGED <<calls, templateBuffer, config, givenData, inflight>>
    /\ UNCHANGED generationVars
    /\ UNCHANGED validatorVars

\* the route handler runs and answers
RunHandler ==
    /\ pc = "handling"
    /\ calls' = Append(calls, Call("handler", <<req.method, req.url>>))
    /\ response' = Some([status |-> 200])
    /\ pc' = "done"
    /\ UNCHANGED <<req, log, templateBuffer, config, givenData, inflight>>
    /\ UNCHANGED generationVars
    /\ UNCHANGED validatorVars

NextAuth ==
    \/ RegisterAuth
    \/ Dispatch
    \/ PreHandler
    \/ RunHandler

SpecAuth == InitAuth /\ [][NextAuth]_vars

(***************************************************************************)
(* routes/generate.ts: two generation requests in flight                   *)
(***************************************************************************)

\* what one invocation of the handler holds: its payload, the constants and
\* variables it declares, those of fetchTemplateFromUrl, its request.log
\* and its reply
Frame ==
    [ req |-> req, pc |-> pc, mode |-> mode, templateName |-> templateName,
      templateBuffer |-> templateBuffer, renderedDocx |-> renderedDocx,
      pdfBuffer |-> pdfBuffer, timerArmed |-> timerArmed, fetchResponse |-> fetchResponse,
      arrayBuffer |-> arrayBuffer, calls |-> calls, log |-> log, response |-> response ]

\* the frame of a request that has just arrived
Arrived(payload) ==
    [ req |-> payload, pc |-> "received", mode |-> "", templateName |-> <<>>,
      templateBuffer |-> Absent, renderedDocx |-> Absent, pdfBuffer |-> Absent,
      timerArmed |-> FALSE, fetchResponse |-> Absent, arrayBuffer |-> Absent,
      calls |-> <<>>, log |-> <<>>, response |-> Absent ]

\* a handler in which templateName is one variable for all invocations:
\* a resumed invocation finds what the last one to run left in it
Resume_SharedTemplateName(saved, running) ==
    [saved EXCEPT !.templateName = running.templateName]

\* what an invocation finds when it is resumed after an await: the bindings
\* it had when it was suspended
Resume(saved, running) == saved

StoredPdf ==
    [ template_id |-> Some(InvoiceDocx), template |-> Absent, template_url |-> Absent,
      output_format |-> "pdf", data |-> DataPhoto ]
RemoteDocx ==
    [ template_id |-> Absent, template |-> Absent, template_url |-> Some(UrlEscaped),
      output_format |-> "docx", data |-> DataEmpty ]
InlinePdf ==
    [ template_id |-> Absent, template |-> Some(MkTemplate(B64Docx, <<"a", "/", "b", ".Docx">>)),
      template_url |-> Absent, output_format |-> "pdf", data |-> DataEmpty ]
InlineBroken ==
    [ template_id |-> Absent, template |-> Some(MkTemplate(B64NoContentTypes, <<"report">>)),
      template_url |-> Absent, output_format |-> "docx", data |-> DataPhoto ]
TwoSources ==
    [ template_id |-> Some(InvoiceDocx), template |-> Absent, template_url |-> Some(UrlDirect),
      output_format |-> "pdf", data |-> DataEmpty ]

\* the pairs of requests that are in flight together
RequestPairs ==
    { <<StoredPdf, RemoteDocx>>, <<InlinePdf, StoredPdf>>, <<InlineBroken, InlinePdf>>,
      <<TwoSources, StoredPdf>>, <<StoredPdf, StoredPdf>> }

InitConcurrent ==
    \E pair \in RequestPairs :
        /\ req = pair[1]
        /\ inflight = Some(Arrived(pair[2]))
        /\ pc = "received"
        /\ mode = ""
        /\ templateName = <<>>
        /\ templateBuffer = Absent
        /\ renderedDocx = Absent
        /\ pdfBuffer = Absent
        /\ timerArmed = FALSE
        /\ fetchResponse = Absent
        /\ arrayBuffer = Absent
        /\ calls = <<>>
        /\ log = <<>>
        /\ response = Absent
        /\ givenBuffer = Absent
        /\ results = <<>>
        /\ givenData = Absent
        /\ config = Absent

\* the running invocation is suspended at an await (or has replied) and the
\* event loop resumes the other one
Switch ==
    /\ IsPresent(inflight)
    /\ inflight' = Some(Frame)
    /\ req' = Resume(inflight[1], Frame).req
    /\ pc' = Resume(inflight[1], Frame).pc
    /\ mode' = Resume(inflight[1], Frame).mode
    /\ templateName' = Resume(inflight[1], Frame).templateName
    /\ templateBuffer' = Resume(inflight[1], Frame).templateBuffer
    /\ renderedDocx' = Resume(inflight[1], Frame).renderedDocx
    /\ pdfBuffer' = Resume(inflight[1], Frame).pdfBuffer
    /\ timerArmed' = Resume(inflight[1], Frame).timerArmed
    /\ fetchResponse' = Resume(inflight[1], Frame).fetchResponse
    /\ arrayBuffer' = Resume(inflight[1], Frame).arrayBuffer
    /\ calls' = Resume(inflight[1], Frame).calls
    /\ log' = Resume(inflight[1], Frame).log
    /\ response' = Resume(inflight[1], Frame).response
    /\ UNCHANGED <<givenBuffer, results, givenData, config>>

NextConcurrent ==
    \/ Next
    \/ Switch

SpecConcurrent == InitConcurrent /\ [][NextConcurrent]_vars

(***************************************************************************)
(* Properties                                                              *)
(***************************************************************************)

Done == pc = "done"
Status == IF IsPresent(response) THEN response[1].status ELSE 0

\* the template sources of a body that are non-empty
NonEmptySources(body) ==
    (IF IsPresent(body.template_id) /\ body.template_id[1] # <<>> THEN {"template_id"} ELSE {})
    \cup (IF IsPresent(body.template) THEN {"template"} ELSE {})
    \cup (IF IsPresent(body.template_url) /\ body.template_url[1].href # "" THEN {"template_url"} ELSE {})

IoCalls == {"fetch", "arrayBuffer", "readFile", "validateDocx", "render", "renderFromBuffer",
            "createReport", "convert"}

RenderCalled == Called("render") \/ Called("renderFromBuffer") \/ Called("createReport")

\* C1: a request with zero or with several non-empty template sources is
\* answered with the request-shape error (HTTP 400) and no I/O is done for it:
\* no fetch, no file read, no Validator, rendering or conversion call.
C1_ShapeErrorBeforeIO ==
    Cardinality(NonEmptySources(req)) # 1 =>
        /\ pc \in {"received", "done"}
        /\ \A i \in DOMAIN calls : calls[i].op \notin IoCalls
        /\ Done => response = Some(SchemaErrorReply)

C1_Witness ==
    /\ Done
    /\ NonEmptySources(req) = {"template_id", "template"}
    /\ ObjectSchemaOk(req)
    /\ Status = 400

\* C2: in inline and URL mode the rendering delegate is called only for a
\* buffer validateDocx finds valid; for an invalid buffer the request ends
\* with 400 'Invalid template file', the joined structural errors as details,
\* and neither rendering nor conversion is called.
C2_RenderOnlyIfValid ==
    (mode \in {"BYOT", "URL"} /\ IsPresent(templateBuffer)) =>
        /\ RenderCalled => validateDocx(templateBuffer[1]).valid
        /\ (Done /\ ~validateDocx(templateBuffer[1]).valid) =>
              /\ response = Some(ErrorReply(400, "Invalid template file",
                                    Join(validateDocx(templateBuffer[1]).errors), Absent))
              /\ ~RenderCalled
              /\ ~Called("convert")

C2_Witness ==
    /\ Done
    /\ mode = "URL"
    /\ templateBuffer = Some(BufNoContentTypes)
    /\ Status = 400
    /\ response[1].details = <<"Missing", "required", "file:", "[Content_Types].xml">>

\* C3: the conversion delegate is called exactly when rendering succeeded and
\* output_format is not docx; it receives the rendered buffer; a successful
\* response carries the rendered buffer for docx and the converted buffer
\* otherwise.
C3_ConvertIffNotDocx ==
    /\ Called("convert") <=> (IsPresent(renderedDocx) /\ req.output_format # "docx")
    /\ \A i \in DOMAIN calls : calls[i].op = "convert" => calls[i].args[1] = renderedDocx[1]
    /\ (Done /\ Status = 200) =>
          IF req.output_format = "docx"
          THEN response[1].body = renderedDocx /\ IsPresent(renderedDocx)
          ELSE response[1].body = pdfBuffer /\ IsPresent(pdfBuffer)

C3_Witness ==
    /\ Done
    /\ Status = 200
    /\ req.output_format = "html"
    /\ Called("convert")
    /\ response[1].body = Some(PdfB)

\* the content label and the extension that belong to an output format
LabelOf(format) ==
    IF format = "pdf" THEN PdfMime ELSE IF format = "docx" THEN DocxMime ELSE "text/html"
ExtensionOf(format) ==
    IF format = "pdf" THEN ".pdf" ELSE IF format = "docx" THEN ".docx" ELSE ".html"

\* C4: every successful generation carries the content label of the requested
\* format and the filename <display name without trailing .docx>.<requested
\* format's extension>.
C4_LabelAndFilename ==
    (Done /\ Status = 200) =>
        /\ response[1].contentType = LabelOf(req.output_format)
        /\ response[1].filename = StripDocx(templateName) \o <<ExtensionOf(req.output_format)>>

C6_NotFoundOnlyForMissingStored ==
    (Done /\ Status = 404) =>
        (mode = "stored" /\ ~FileExists(FullPath(req.template_id[1])))

\* the fetch step of a URL-mode request has failed
FetchFailed == Done /\ mode = "URL" /\ ~IsPresent(templateBuffer)

\* C7: every failure of the fetch step ends the request with 502 'Failed to
\* fetch template from URL'.
C7_FetchFailureIs502 ==
    FetchFailed =>
        (Status = 502 /\ response[1].error = "Failed to fetch template from URL")

\* C8: the abort timer stays armed from the start of the fetch until the
\* whole body has been received.
C8_TimerArmedDuringTransfer ==
    pc \in {"fetch_headers", "fetch_body"} => timerArmed

\* C9: fetchTemplateFromUrl hands over no buffer longer than the cap: a
\* declared content-length above the cap fails the fetch before the body is
\* read, a received body above the cap fails it, and neither is followed by a
\* Validator or rendering call.
C9_SizeCap ==
    /\ (mode = "URL" /\ IsPresent(templateBuffer)) => templateBuffer[1].len <= MAX_SIZE
    /\ (IsPresent(fetchResponse) /\ IsOk(fetchResponse[1].status)
        /\ IsPresent(fetchResponse[1].contentLength)
        /\ parseInt(fetchResponse[1].contentLength[1]) > MAX_SIZE) =>
          /\ Done /\ Status # 200
          /\ ~Called("arrayBuffer") /\ ~Called("validateDocx") /\ ~RenderCalled
    /\ (IsPresent(arrayBuffer) /\ arrayBuffer[1].len > MAX_SIZE) =>
          /\ Done /\ Status # 200
          /\ templateBuffer = Absent
          /\ ~Called("validateDocx") /\ ~RenderCalled

C9_Witness ==
    /\ Done
    /\ arrayBuffer = Some(BufDocxOverCap)
    /\ Status = 502
    /\ Includes(response[1].details, <<"too", "large">>)

\* the conversion delegate was called and did not return a buffer
ConvertFailed == Done /\ Called("convert") /\ ~IsPresent(pdfBuffer)

\* C10: every failure of the conversion delegate ends the request with 502
\* 'PDF conversion service unavailable' carrying the delegate's details, after
\* a single conversion attempt.
C10_ConvertFailureIs502 ==
    ConvertFailed =>
        /\ Status = 502
        /\ response[1].error = "PDF conversion service unavailable"
        /\ CountCalls("convert") = 1

\* C11: a request that ends as an uncategorized failure (HTTP 500) carries
\* only the generic message: no field of the reply holds the text of the
\* underlying error.
C11_GenericInternalError ==
    (Done /\ Status = 500) =>
        /\ response[1].error = "Internal server error during document generation"
        /\ response[1].details = <<>>

\* the place of each call in the pipeline resolve -> validate -> render -> convert
Rank(op) ==
    CASE op = "fetch" -> 1
      [] op = "arrayBuffer" -> 2
      [] op = "validateDocx" -> 3
      [] op \in {"render", "renderFromBuffer"} -> 4
      [] op = "readFile" -> 5
      [] op = "createReport" -> 6
      [] op = "convert" -> 7
      [] OTHER -> 0

\* the calls made so far follow the pipeline order, none of them twice
CallsLinear ==
    \A i, j \in DOMAIN calls : i < j => Rank(calls[i].op) < Rank(calls[j].op)

\* every call made so far follows the success of the step before it
CallsFollowSuccess ==
    /\ Called("validateDocx") =>
          /\ IsPresent(templateBuffer)
          /\ mode = "URL" => (IsPresent(arrayBuffer) /\ IsOk(fetchResponse[1].status))
    /\ (Called("createReport") /\ mode \in {"BYOT", "URL"}) =>
          (Called("validateDocx") /\ validateDocx(templateBuffer[1]).valid)
    /\ (Called("createReport") /\ mode = "stored") => Called("readFile")
    /\ Called("convert") => IsPresent(renderedDocx)
    /\ (Done /\ Status # 200) => ~IsPresent(pdfBuffer)

ErrorLogCount == Cardinality({i \in DOMAIN log : log[i].level = "error"})

\* C13: every request the handler ends with an error has exactly one
\* error-level log entry.
C13_OneErrorLogPerFailure ==
    (Done /\ Status # 200 /\ UniversalPayloadSchema(req)) => ErrorLogCount = 1

\* the content of a validate request is a non-empty string, its data a record
\* or absent
ValidateShapeOk ==
    /\ IsPresent(req.content) /\ req.content[1] # <<>>
    /\ IsPresent(req.data) => req.data[1].t = "obj"

\* a reply has the {valid, fields, ...} envelope
IsEnvelope(reply) ==
    /\ reply.valid \in BOOLEAN
    /\ DOMAIN reply.fields = 1..Len(reply.fields)
    /\ ~reply.valid => (reply.fields = <<>> /\ IsPresent(reply.errors)
                        /\ Len(reply.errors[1]) > 0)

\* C14: a validate request of valid shape is answered 200 with a
\* {valid, fields, ...} envelope, also when the content fails structural
\* validation or processing throws; 400 is answered only for a request-shape
\* problem; the rendering and conversion delegates are never called.
C14_ValidateEnvelope ==
    /\ \A i \in DOMAIN calls :
          calls[i].op \notin {"render", "renderFromBuffer", "createReport", "convert"}
    /\ Done =>
          IF ValidateShapeOk
          THEN Status = 200 /\ IsEnvelope(response[1])
          ELSE Status = 400

C14_Witness ==
    /\ Done
    /\ req.content = Some(B64Template("{{name}}"))
    /\ req.data = Some(SampleNullItem)
    /\ Status = 200
    /\ response[1].valid = FALSE
    /\ ErrorLogCount = 1

\* the elements of a sequence
Range(seq) == {seq[i] : i \in DOMAIN seq}

\* the fields without a '.' that the flattened keys of the data lack
UndottedMissing(fields, data) ==
    SelectSeq(fields, LAMBDA f : /\ \A i \in 1..Len(f) : Ch(f, i) # "."
                                 /\ f \notin Range(flattenKeys(data, "").keys))

\* C15: for a structurally valid template and any sample data the reply has
\* valid = true, the extracted fields, no errors, and a warning exactly when
\* some extracted field without a '.' is absent from the flattened keys,
\* naming exactly those fields.
C15_MissingFieldsOnlyWarn ==
    (Done /\ ValidateShapeOk /\ IsPresent(req.data)
          /\ validateDocx(templateBuffer[1]).valid) =>
        /\ response[1].valid = TRUE
        /\ response[1].fields = extractFields(templateBuffer[1]).value
        /\ response[1].errors = Absent
        /\ response[1].warnings =
             IF Len(UndottedMissing(response[1].fields, req.data[1])) = 0 THEN Absent
             ELSE Some(<< "Template fields not found in sample data: "
                          \o JoinText(UndottedMissing(response[1].fields, req.data[1])) >>)

\* a buffer shorter than 4 bytes or not starting with 0x50 0x4B
ShortOrNoMagic(b) == b.len < 4 \/ Len(b.head) < 2 \/ b.head[1] # 80 \/ b.head[2] # 75

\* the results of the calls of one function
ResultsOf(fn) == {i \in DOMAIN results : results[i].fn = fn}

\* C16: for a buffer shorter than 4 bytes or without the PK signature,
\* validateDocx returns valid = false with exactly the missing-signature error
\* and does not open the buffer as an archive.
C16_SignatureGate ==
    ShortOrNoMagic(givenBuffer[1]) =>
        /\ \A i \in ResultsOf("validateDocx") :
              /\ ~results[i].threw
              /\ results[i].value.valid = FALSE
              /\ results[i].value.errors = <<PkSignatureError>>
        /\ \A i \in DOMAIN calls : calls[i] # Call("loadAsync", <<"validateDocx">>)

C16_Witness ==
    /\ givenBuffer = Some(BufPkShort)
    /\ Len(results) = 1
    /\ results[1].fn = "validateDocx"
    /\ results[1].value.errors
         = << <<"File", "is", "not", "a", "valid", "ZIP", "archive", "(missing", "PK", "signature)">> >>

\* the 'Missing required file' errors of an archive, in the fixed order
ExpectedMissing(parts) ==
    (IF ContentTypesXml \in parts THEN <<>>
     ELSE << <<"Missing", "required", "file:", "[Content_Types].xml">> >>)
    \o (IF DocumentXml \in parts THEN <<>>
        ELSE << <<"Missing", "required", "file:", "word/document.xml">> >>)

\* C17: validateDocx returns valid = true exactly for a buffer that passes
\* the signature check, opens as an archive and holds both mandatory parts;
\* past the signature check an invalid result carries a single parse-failure
\* error or one 'Missing required file' error per absent part in the fixed
\* order; valid goes with no errors, invalid with at least one.
C17_ValidIffComplete ==
    \A i \in ResultsOf("validateDocx") :
        LET b == givenBuffer[1]
            v == results[i].value
        IN /\ v.valid <=> (/\ ~ShortOrNoMagic(b)
                           /\ b.zip.ok
                           /\ {ContentTypesXml, DocumentXml} \subseteq b.zip.parts)
           /\ v.valid => v.errors = <<>>
           /\ ~v.valid => Len(v.errors) > 0
           /\ (~ShortOrNoMagic(b) /\ ~b.zip.ok) =>
                 /\ Len(v.errors) = 1
                 /\ SubSeq(v.errors[1], 1, 5) = <<"Failed", "to", "parse", "ZIP", "archive:">>
           /\ (~ShortOrNoMagic(b) /\ b.zip.ok /\ ~v.valid) =>
                 v.errors = ExpectedMissing(b.zip.parts)

C17_Witness ==
    /\ givenBuffer = Some(BufEmptyZip)
    /\ Len(results) = 1
    /\ results[1].fn = "validateDocx"
    /\ Len(results[1].value.errors) = 2

\* C18: extractFields never throws and returns a sequence; for a buffer that
\* cannot be opened as an archive the sequence is empty; for an archive the
\* parts it lacks are skipped without an error.
C18_ExtractNeverThrows ==
    \A i \in ResultsOf("extractFields") :
        /\ ~results[i].threw
        /\ DOMAIN results[i].value = 1..Len(results[i].value)
        /\ ~givenBuffer[1].zip.ok => results[i].value = <<>>
        /\ givenBuffer[1].zip.ok => \A k \in DOMAIN log : log[k].level # "console.error"

C18_Witness ==
    /\ givenBuffer = Some(BufTest)
    /\ Len(results) = 1
    /\ results[1] = Result("extractFields", FALSE, <<>>)
    /\ \E k \in DOMAIN log : log[k].level = "console.error"

\* the fields of the content parts an archive holds
FieldsOfParts(zip) ==
    UNION {Range(extractFieldsFromXml(zip.texts[p], <<>>)) : p \in zip.parts \cap Range(xmlFiles)}

IsKeywordName(f) ==
    \/ toUpperCase(f) \in {"END-FOR", "END-IF", "ENDFOR", "ENDIF", "FOR", "IF", "ELSE",
                           "IMAGE", "LINK", "HTML"}
    \/ f \in {"this", "$idx", "$index"}

\* C20: no control keyword is a member of the fields extractFields returns.
C20_NoKeywordInFields ==
    \A i \in ResultsOf("extractFields") :
        \A k \in DOMAIN results[i].value : ~IsKeywordName(results[i].value[k])

\* the text holds lit somewhere
Occurs(text, lit) == \E i \in 1..Len(text) : StartsAt(text, i, lit)

\* the text holds first and, after it, then
OccursBefore(text, first, then) ==
    \E i \in 1..Len(text) :
        /\ StartsAt(text, i, first)
        /\ \E j \in (i + Len(first))..Len(text) : StartsAt(text, j, then)

\* the main body text of an archive ("" when it has none)
BodyText(b) == IF b.zip.ok /\ DocumentXml \in b.zip.parts THEN b.zip.texts[DocumentXml] ELSE ""

\* the names the loop directives of the document texts use
LoopNames == {"i", "r", "items", "rows"}

\* C21: extractFields adds the collection y of every {{FOR x IN y}} and the
\* variable x of every {{FOR x}}, the keywords in either letter case; for a
\* text holding {{FOR items}} ... {{END-FOR}} the fields include items and
\* hold neither FOR nor END-FOR.
C21_LoopFields ==
    \A k \in ResultsOf("extractFields") :
        LET text == BodyText(givenBuffer[1])
            fields == Range(results[k].value)
        IN /\ \A x, y \in LoopNames :
                /\ (Occurs(text, "{{FOR " \o x \o " IN " \o y \o "}}")
                    \/ Occurs(text, "{{for " \o x \o " in " \o y \o "}}")) => y \in fields
                /\ (Occurs(text, "{{FOR " \o x \o "}}")
                    \/ Occurs(text, "{{for " \o x \o "}}")) => x \in fields
           /\ OccursBefore(text, "{{FOR items}}", "{{END-FOR}}") =>
                /\ "items" \in fields
                /\ "FOR" \notin fields
                /\ "END-FOR" \notin fields

\* a string of the form data:image/<fmt>;base64,<payload>: fmt one of png,
\* jpg and jpeg in lower case, the payload whatever "(.*)$" captures, which
\* is any text on one line
IsImageUri(s) ==
    /\ Len(s) >= 3
    /\ SubSeq(s, 1, 3) \in {<<"data:image/", f, ";base64,">> : f \in {"png", "jpg", "jpeg"}}
    /\ "\n" \notin Range(SubSeq(s, 4, Len(s)))

\* C22: processDataForImages maps every string of the form
\* data:image/<fmt>;base64,<payload> to the descriptor with width 6, height
\* 6, data = the payload and extension = "." followed by fmt, and returns
\* every other string unchanged.
C22_ImageStrings ==
    \A k \in ResultsOf("processDataForImages") :
        givenData[1].t = "str" =>
            LET s == givenData[1].s
            IN IF IsImageUri(s)
               THEN results[k].value
                      = Obj(<< <<"width", Num(6)>>, <<"height", Num(6)>>,
                               <<"data", Str(SubSeq(s, 4, Len(s)))>>,
                               <<"extension", Str(<<".", s[2]>>)>> >>)
               ELSE results[k].value = givenData[1]

C22_Witness ==
    /\ givenData = Some(Str(JpegUri))
    /\ Len(results) = 1
    /\ results[1].value
         = Obj(<< <<"width", Num(6)>>, <<"height", Num(6)>>, <<"data", Str(<<"/9j/4AAQ">>)>>,
                  <<"extension", Str(<<".", "jpeg">>)>> >>)

\* out has the structure of the tree in: sequences keep their length and
\* objects their keys, element by element and key by key; dates, buffers,
\* numbers, booleans and null are the same value; a string is either kept
\* or replaced by an object
RECURSIVE SameStructure(_, _)
SameStructure(in, out) ==
    CASE in.t = "arr" ->
            /\ out.t = "arr"
            /\ Len(out.items) = Len(in.items)
            /\ \A i \in DOMAIN in.items : SameStructure(in.items[i], out.items[i])
      [] in.t = "obj" ->
            /\ out.t = "obj"
            /\ Len(out.entries) = Len(in.entries)
            /\ \A i \in DOMAIN in.entries :
                  /\ out.entries[i][1] = in.entries[i][1]
                  /\ SameStructure(in.entries[i][2], out.entries[i][2])
      [] in.t = "str" -> out = in \/ out.t = "obj"
      [] OTHER -> out = in

EngineCalls == {i \in DOMAIN calls : calls[i].op = "createReport"}

\* C24: every call of the rendering engine, from render (stored mode) and
\* from renderFromBuffer (inline and URL mode), carries the request's data
\* tree with processDataForImages applied to it once.
C24_EngineGetsNormalizedData ==
    \A i \in EngineCalls : calls[i].args[2] = processDataForImages(req.data)

\* a call whose data differs from the raw tree and from the tree normalized
\* twice, in inline mode
C24_Witness ==
    /\ mode = "BYOT"
    /\ \E i \in EngineCalls :
          /\ calls[i].args[2] # req.data
          /\ calls[i].args[2] # processDataForImages(processDataForImages(req.data))
          /\ calls[i].args[2].entries[2][2].entries[4][2] = Str(<<".", "png">>)

\* the text a percent-encoded text stands for
PercentDecoded(s) == [i \in DOMAIN s |-> IF s[i] = "%20" THEN " " ELSE IF s[i] = "%2F" THEN "/" ELSE s[i]]

\* the name the three rules give: (a) the decoded last path segment when
\* it has a ".", else (b) the value of file, or of filename when there is
\* no file, else (c) template.docx; template.docx also for a URL that does
\* not parse and for a text that cannot be decoded
FilenameByRule(url) ==
    IF ~url.ok THEN <<"template", ".docx">>
    ELSE IF Len(url.segs) > 0 /\ \E i \in DOMAIN url.segs[Len(url.segs)] :
                                     url.segs[Len(url.segs)][i] \in DotAtoms
    THEN (IF "%" \in Range(url.segs[Len(url.segs)]) THEN <<"template", ".docx">>
          ELSE PercentDecoded(url.segs[Len(url.segs)]))
    ELSE IF IsPresent(url.file) /\ "%" \in Range(url.file[1]) THEN <<"template", ".docx">>
    ELSE IF IsPresent(url.file) THEN url.file[1]
    ELSE IF IsPresent(url.filename) THEN url.filename[1]
    ELSE <<"template", ".docx">>

\* C25: the name taken from a remote URL is the decoded last path segment
\* when that segment has a ".", else the value of the file parameter (of
\* filename when file is absent), else template.docx; a path segment with a
\* "." wins over a file parameter; a URL that does not parse or a text that
\* does not decode gives template.docx.
C25_FilenameFromUrl ==
    (mode = "URL" /\ pc # "received") => templateName = FilenameByRule(req.template_url[1])

\* the value of the API-key header of the request (its name compared
\* without regard to letter case), Absent when the request has none
KeyHeader ==
    LET named == {i \in DOMAIN req.headers :
                     toUpperCase(req.headers[i][1]) = toUpperCase(config[1].headerName)}
    IN IF named = {} THEN Absent ELSE Some(req.headers[CHOOSE i \in named : TRUE][2])

HandlerRan == Called("handler")

\* /health, OPTIONS, or a configured key
MayPass ==
    \/ req.url = "/health"
    \/ req.method = "OPTIONS"
    \/ (IsPresent(KeyHeader) /\ KeyHeader[1] \in config[1].apiKeys)

MissingHeaderMessage == "Missing " \o config[1].headerName \o " header"

\* the hook's part in an answered request, given when the message is the
\* 'Missing' one
AuthGate(missing) ==
    /\ config[1].enabled =>
          /\ HandlerRan => MayPass
          /\ (pc = "done" /\ ~MayPass) =>
                /\ ~HandlerRan
                /\ response = Some([status |-> 401, error |-> "Unauthorized",
                                    message |-> IF missing THEN MissingHeaderMessage
                                                ELSE "Invalid API key"])
    /\ ~config[1].enabled => (pc = "done" => (HandlerRan /\ response[1].status # 401))

\* C26 as stated: with authentication enabled the handler runs only for
\* /health, for OPTIONS or with a configured key; every other request gets
\* 401 'Unauthorized' without the handler, with 'Missing <header> header'
\* when the header is absent and 'Invalid API key' when it is present but
\* not configured; with authentication disabled the hook rejects nothing.
C26_AuthGateAsStated == AuthGate(~IsPresent(KeyHeader))

\* C26 amended: the same, with 'Missing <header> header' when the header is
\* absent or its value is empty, and 'Invalid API key' for a non-empty
\* value that is not configured.
C26_AuthGate == AuthGate(~IsPresent(KeyHeader) \/ KeyHeader = Some(""))

\* a request with a key that is not configured, on a server without keys,
\* answered 401 without the handler
C26_Witness ==
    /\ config[1].enabled /\ config[1].apiKeys = {}
    /\ req.url = "/v1/generate" /\ req.method = "POST"
    /\ KeyHeader = Some("test-key-123")
    /\ pc = "done"
    /\ ~HandlerRan
    /\ response = Some([status |-> 401, error |-> "Unauthorized", message |-> "Invalid API key"])

\* the errors the catch block has logged
ThrownErrors == {log[i].error : i \in {j \in DOMAIN log : log[j].level = "error"}}

\* whether the thrown value is an Error whose message holds the words
Says(error, words) == error.isError /\ Includes(error.message, words)

\* status and error text by the first rule that matches
OutcomeByMessage(error) ==
    IF Says(error, <<"ENOENT">>) \/ Says(error, <<"no", "such", "file">>)
    THEN <<404, "Template not found">>
    ELSE IF Says(error, <<"Gotenberg">>)
    THEN <<502, "PDF conversion service unavailable">>
    ELSE IF Says(error, <<"base64">>) \/ Says(error, <<"Invalid">>)
    THEN <<400, "Invalid template content">>
    ELSE IF Says(error, <<"fetch">>)
    THEN <<502, "Failed to fetch template from URL">>
    ELSE <<500, "Internal server error during document generation">>

\* C29: a request that fails with a thrown error is answered by the first
\* rule its message matches, in the order ENOENT / no such file -> 404,
\* Gotenberg -> 502, base64 / Invalid -> 400, fetch -> 502, otherwise or for
\* a value that is not an Error -> 500, whatever the mode and the step.
C29_StatusByMessage ==
    \A error \in ThrownErrors :
        /\ IsPresent(response)
        /\ <<response[1].status, response[1].error>> = OutcomeByMessage(error)

\* the rendering step of a stored template throws a message that says
\* Gotenberg: answered 502 as a conversion failure would be
C29_Witness ==
    \E error \in ThrownErrors :
        /\ mode = "stored" /\ Called("createReport") /\ ~Called("convert")
        /\ Says(error, <<"Gotenberg">>)
        /\ response[1].status = 502
        /\ response[1].error = "PDF conversion service unavailable"

\* C28: validateDocx is called once in inline mode and once in URL mode
\* (there as soon as the template has been fetched) and never in stored
\* mode, where the file read from the store goes to the rendering engine
\* with no structural check before it.
C28_ValidatorOnlyForGivenTemplates ==
    /\ Called("validateDocx") => mode \in {"BYOT", "URL"}
    /\ mode = "BYOT" =>
          /\ CountCalls("validateDocx") = 1
          /\ Called("validateDocx") /\ calls[1] = Call("validateDocx", <<templateBuffer[1]>>)
    /\ mode = "URL" =>
          CountCalls("validateDocx") = (IF IsPresent(templateBuffer) THEN 1 ELSE 0)
    /\ mode = "stored" =>
          /\ CountCalls("validateDocx") = 0
          /\ \A i \in EngineCalls : i = 3 /\ calls[2].op = "readFile" /\ calls[1].op = "render"
    /\ \A i \in EngineCalls :
          mode # "stored" => \E j \in 1..(i - 1) : calls[j] = Call("validateDocx", <<calls[i].args[1]>>)

\* a stored template rendered and converted with no call of the validator
C28_Witness ==
    /\ mode = "stored" /\ Done /\ response[1].status = 200
    /\ ~Called("validateDocx") /\ Called("createReport") /\ Called("convert")

Frames == {Frame} \cup {inflight[i] : i \in DOMAIN inflight}

\* the errors the catch block of an invocation has logged
ThrownIn(f) == {f.log[i].error : i \in {j \in DOMAIN f.log : f.log[j].level = "error"}}

\* the reply a request gets when it is processed alone, given what it was
\* sent and what its own fetch, validation, rendering and conversion gave
ReplyAlone(f) ==
    IF ~UniversalPayloadSchema(f.req) THEN SchemaErrorReply
    ELSE IF ThrownIn(f) # {} THEN Classify(CHOOSE e \in ThrownIn(f) : TRUE, f.req)
    ELSE IF IsPresent(f.pdfBuffer) THEN PdfReply(TemplateNameOf(f.req), f.pdfBuffer[1])
    ELSE IF IsPresent(f.renderedDocx) THEN DocxReply(TemplateNameOf(f.req), f.renderedDocx[1])
    ELSE ErrorReply(400, "Invalid template file",
                    InvalidDetails(validateDocx(f.templateBuffer[1])), Absent)

\* C27: with two generation requests in flight and their steps interleaved
\* in any order, each request that has been answered has the reply it gets
\* when processed alone, and what an invocation holds is its own: its mode,
\* template name and validated buffer come from its own request.
C27_RepliesAsIfAlone ==
    \A f \in Frames :
        /\ f.pc = "done" => f.response = Some(ReplyAlone(f))
        /\ f.pc # "done" => f.response = Absent
        /\ f.mode \in {"", ModeOf(f.req)}
        /\ f.templateName \in {<<>>, TemplateNameOf(f.req)}
        /\ (IsPresent(f.templateBuffer) /\ IsPresent(f.req.template)) =>
              f.templateBuffer[1] = BufferFromBase64(f.req.template[1].content)

\* both requests answered with a file after the stored one was suspended
\* between its steps: invoice.pdf for the one, "my doc.docx" for the other
C27_Witness ==
    /\ IsPresent(inflight)
    /\ \A f \in Frames : f.pc = "done" /\ f.response[1].status = 200
    /\ req = StoredPdf /\ inflight[1].req = RemoteDocx
    /\ Len(log) > 0 /\ Len(inflight[1].log) > 0
    /\ response[1].filename = <<"invoice", ".pdf">>
    /\ inflight[1].response[1].filename = <<"my", " ", "doc", ".docx">>

====
